---- MODULE Spec2Model ----
(***************************************************************************)
(* A model of unifi-backup: the retry harness (utils.go), the retention    *)
(* cleaner (cleanup.go), the backup filename codec (pkg/storage) and the    *)
(* pipeline of main.go that strings them together.                          *)
(*                                                                          *)
(* The specifications share the variables and the actions:                 *)
(*   Spec          one run of main(), from login to process exit;          *)
(*   SpecRetry     retryWithBackoff alone, around an arbitrary operation;  *)
(*   SpecRetryAny  the same, given any maxRetries;                         *)
(*   SpecCleanup   cleanupOldBackups alone, on an arbitrary store;         *)
(*   SpecStore     storage.Open and the adapters, by an arbitrary client;  *)
(*   SpecCodec     the filename codec and parseSMBURL alone;               *)
(*   SpecProgress  the progress reader, read to the end of its stream.     *)
(***************************************************************************)
EXTENDS Integers, Sequences, FiniteSets, TLC

(***************************************************************************)
(* Bounds of the model.                                                     *)
(***************************************************************************)
\* cfg.UniFi.MaxRetries is drawn from 0..MaxRetries, and LargeRetries.
MaxRetries == 1
\* A retry budget long enough for the exponent of the backoff to pass 62.
LargeRetries == 64
\* cfg.Retention.KeepLast is drawn from 0..MaxKeepLast (1..MaxKeepLast for
\* cleanupOldBackups alone).
MaxKeepLast == 2
\* The instants Instant(1) .. Instant(NumInstants) name the well-formed keys.
NumInstants == 3
\* cleanupOldBackups alone is given a store of at most MaxObjects objects.
MaxObjects == 4
\* The store of a run of main holds at most MaxRunObjects objects when opened.
MaxRunObjects == 1

\* The calls of Close on one store.
MaxCloses == 2
\* The bytes of a megabyte, scaled down: logInterval is logIntervalMB * MiB.
MiB == 2
\* newProgressReader is given a logIntervalMB of 1..MaxIntervalMB.
MaxIntervalMB == 2
\* The stream read through the progress reader has at most MaxStream bytes.
MaxStream == 3
\* The length of the backup the download announces, in bytes.
BodyLength == 2

(***************************************************************************)
(* Text.  A string is a sequence of one-character strings.                  *)
(***************************************************************************)
Digits == <<"0", "1", "2", "3", "4", "5", "6", "7", "8", "9">>

DigitVal(c) == (CHOOSE d \in 1..10 : Digits[d] = c) - 1

\* isDigit(s, i) of package time, with i counted from 1.
IsDigit(s, i) == i <= Len(s) /\ \E d \in 1..10 : Digits[d] = s[i]

HasPrefix(s, p) == Len(s) >= Len(p) /\ SubSeq(s, 1, Len(p)) = p

HasSuffix(s, p) == Len(s) >= Len(p) /\ SubSeq(s, Len(s) - Len(p) + 1, Len(s)) = p

\* strings.TrimPrefix / strings.TrimSuffix
TrimPrefix(s, p) == IF HasPrefix(s, p) THEN SubSeq(s, Len(p) + 1, Len(s)) ELSE s

TrimSuffix(s, p) == IF HasSuffix(s, p) THEN SubSeq(s, 1, Len(s) - Len(p)) ELSE s

Drop(s, n) == SubSeq(s, n + 1, Len(s))

Pad2(n) == <<Digits[(n \div 10) + 1], Digits[(n % 10) + 1]>>

Pad4(n) == <<Digits[(n \div 1000) + 1], Digits[((n \div 100) % 10) + 1],
             Digits[((n \div 10) % 10) + 1], Digits[(n % 10) + 1]>>

(***************************************************************************)
(* The filename codec: pkg/storage, storage.go.                             *)
(***************************************************************************)
BackupPrefix == <<"u", "n", "i", "f", "i", "-", "b", "a", "c", "k", "u", "p", "-">>

BackupSuffix == <<".", "u", "n", "f">>

\* A time.Time in UTC, as its civil fields.
ZeroTime == [year |-> 1, month |-> 1, day |-> 1, hour |-> 0, min |-> 0, sec |-> 0, nsec |-> 0]

\* A variant with the hour of the twelve-hour clock: the layout "03" for "15".
FormatTime12(t) ==
    LET h == IF t.hour % 12 = 0 THEN 12 ELSE t.hour % 12
    IN  Pad4(t.year) \o <<"-">> \o Pad2(t.month) \o <<"-">> \o Pad2(t.day) \o <<"T">>
            \o Pad2(h) \o <<"-">> \o Pad2(t.min) \o <<"-">> \o Pad2(t.sec) \o <<"Z">>

\* t.Format(TimeFormat) with TimeFormat = "2006-01-02T15-04-05Z", for a year of
\* four digits: the fraction of a second is not written.
FormatTime(t) ==
    Pad4(t.year) \o <<"-">> \o Pad2(t.month) \o <<"-">> \o Pad2(t.day) \o <<"T">>
        \o Pad2(t.hour) \o <<"-">> \o Pad2(t.min) \o <<"-">> \o Pad2(t.sec) \o <<"Z">>

IsLeap(y) == y % 4 = 0 /\ (y % 100 # 0 \/ y % 400 = 0)

\* daysIn(month, year) of package time.
DaysIn(m, y) ==
    IF m = 2 THEN (IF IsLeap(y) THEN 29 ELSE 28)
    ELSE IF m \in {4, 6, 9, 11} THEN 30 ELSE 31

\* getnum(s, fixed) of package time: one or two digits; two when fixed.
GetNum(s, fixed) ==
    IF ~IsDigit(s, 1) THEN [ok |-> FALSE, n |-> 0, rest |-> s]
    ELSE IF ~IsDigit(s, 2)
         THEN IF fixed THEN [ok |-> FALSE, n |-> 0, rest |-> s]
              ELSE [ok |-> TRUE, n |-> DigitVal(s[1]), rest |-> Drop(s, 1)]
         ELSE [ok |-> TRUE, n |-> DigitVal(s[1]) * 10 + DigitVal(s[2]), rest |-> Drop(s, 2)]

\* The stdLongYear chunk: exactly four digits.
GetYear(s) ==
    IF Len(s) >= 4 /\ \A i \in 1..4 : IsDigit(s, i)
    THEN [ok |-> TRUE,
          n |-> DigitVal(s[1]) * 1000 + DigitVal(s[2]) * 100 + DigitVal(s[3]) * 10 + DigitVal(s[4]),
          rest |-> Drop(s, 4)]
    ELSE [ok |-> FALSE, n |-> 0, rest |-> s]

\* skip(value, prefix) for a one-character literal of the layout.
SkipLit(s, c) ==
    IF Len(s) >= 1 /\ s[1] = c THEN [ok |-> TRUE, rest |-> Drop(s, 1)]
    ELSE [ok |-> FALSE, rest |-> s]

\* The number of digits of s from position i on.
RECURSIVE DigitRun(_, _)
DigitRun(s, i) == IF IsDigit(s, i) THEN 1 + DigitRun(s, i + 1) ELSE 0

RECURSIVE Pow10(_)
Pow10(n) == IF n = 0 THEN 1 ELSE 10 * Pow10(n - 1)

RECURSIVE DigitsVal(_, _, _)
\* The value of the n digits of s that start at position i.
DigitsVal(s, i, n) ==
    IF n = 0 THEN 0 ELSE DigitsVal(s, i, n - 1) * 10 + DigitVal(s[i + n - 1])

\* The seconds chunk of Parse: a fraction of a second in the value is read
\* although the layout has none (parseNanoseconds keeps nine digits).
GetFraction(s) ==
    IF Len(s) >= 2 /\ s[1] \in {".", ","} /\ IsDigit(s, 2)
    THEN LET run == DigitRun(s, 2)
             kept == IF run > 9 THEN 9 ELSE run
         IN  [nsec |-> DigitsVal(s, 2, kept) * Pow10(9 - kept), rest |-> Drop(s, 1 + run)]
    ELSE [nsec |-> 0, rest |-> s]

\* time.Parse(TimeFormat, value): the chunks of the layout in turn, then the
\* check of the day against the month.
ParseTime(value) ==
    LET bad == [ok |-> FALSE, t |-> ZeroTime]
        y  == GetYear(value)
        l1 == SkipLit(y.rest, "-")
        mo == GetNum(l1.rest, TRUE)
        l2 == SkipLit(mo.rest, "-")
        d  == GetNum(l2.rest, TRUE)
        l3 == SkipLit(d.rest, "T")
        h  == GetNum(l3.rest, FALSE)
        l4 == SkipLit(h.rest, "-")
        mi == GetNum(l4.rest, TRUE)
        l5 == SkipLit(mi.rest, "-")
        s  == GetNum(l5.rest, TRUE)
        f  == GetFraction(s.rest)
        l6 == SkipLit(f.rest, "Z")
    IN  IF ~y.ok \/ ~l1.ok THEN bad
        ELSE IF ~mo.ok \/ mo.n < 1 \/ mo.n > 12 \/ ~l2.ok THEN bad
        ELSE IF ~d.ok \/ ~l3.ok THEN bad
        ELSE IF ~h.ok \/ h.n >= 24 \/ ~l4.ok THEN bad
        ELSE IF ~mi.ok \/ mi.n >= 60 \/ ~l5.ok THEN bad
        ELSE IF ~s.ok \/ s.n >= 60 THEN bad
        ELSE IF ~l6.ok \/ Len(l6.rest) # 0 THEN bad
        ELSE IF d.n < 1 \/ d.n > DaysIn(mo.n, y.n) THEN bad
        ELSE [ok |-> TRUE,
              t |-> [year |-> y.n, month |-> mo.n, day |-> d.n, hour |-> h.n,
                     min |-> mi.n, sec |-> s.n, nsec |-> f.nsec]]

\* ParseBackupFilename(filename)
ParseBackupFilename(filename) ==
    IF ~HasPrefix(filename, BackupPrefix) \/ ~HasSuffix(filename, BackupSuffix)
    THEN [ok |-> FALSE, t |-> ZeroTime]
    ELSE ParseTime(TrimSuffix(TrimPrefix(filename, BackupPrefix), BackupSuffix))

\* GenerateBackupFilename() when time.Now().UTC() is t.
GenerateBackupFilename(t) == BackupPrefix \o FormatTime(t) \o BackupSuffix

\* t.After(u)
After(t, u) ==
    LET a == <<t.year, t.month, t.day, t.hour, t.min, t.sec, t.nsec>>
        b == <<u.year, u.month, u.day, u.hour, u.min, u.sec, u.nsec>>
    IN  \E i \in 1..7 : a[i] > b[i] /\ \A j \in 1..(i - 1) : a[j] = b[j]

(***************************************************************************)
(* time.Duration: an int64, kept as eight bytes, least significant first,   *)
(* in two's complement, so that a product wraps as the machine's does.      *)
(***************************************************************************)
RECURSIVE NatLimbs(_, _)
\* The k low bytes of the natural number n.
NatLimbs(n, k) == IF k = 0 THEN <<>> ELSE <<n % 256>> \o NatLimbs(n \div 256, k - 1)

Int64(n) == NatLimbs(n, 8)

RECURSIVE Pow2(_)
Pow2(e) == IF e = 0 THEN 1 ELSE 2 * Pow2(e - 1)

\* 2^e as an int64, for 0 <= e <= 62.
Pow2Int64(e) == [i \in 1..8 |-> IF i = (e \div 8) + 1 THEN Pow2(e % 8) ELSE 0]

MinInt64 == <<0, 0, 0, 0, 0, 0, 0, 128>>

MaxInt64 == <<255, 255, 255, 255, 255, 255, 255, 127>>

RECURSIVE SumProducts(_, _, _, _)
\* a[1]*b[k] + a[2]*b[k-1] + ... + a[i]*b[k+1-i]
SumProducts(a, b, k, i) ==
    IF i = 0 THEN 0 ELSE a[i] * b[k + 1 - i] + SumProducts(a, b, k, i - 1)

RECURSIVE MulFrom(_, _, _, _)
MulFrom(a, b, k, carry) ==
    IF k > 8 THEN <<>>
    ELSE LET s == carry + SumProducts(a, b, k, k)
         IN  <<s % 256>> \o MulFrom(a, b, k + 1, s \div 256)

\* a * b of two int64: the low 64 bits of the product.
Mul64(a, b) == MulFrom(a, b, 1, 0)

IsNeg64(a) == a[8] >= 128

\* a > b of two int64.
Gt64(a, b) ==
    IF IsNeg64(a) # IsNeg64(b) THEN IsNeg64(b)
    ELSE \E i \in 1..8 : a[i] > b[i] /\ \A j \in (i + 1)..8 : a[j] = b[j]

\* time.Second, and defaultRetryInitialDelay = 1 * time.Second
Second == Int64(1000000000)

defaultRetryInitialDelay == Mul64(Int64(1), Second)

\* 30 * time.Second
MaxDelay == Mul64(Int64(30), Second)

\* time.Duration(math.Pow(2, float64(e))): exact up to 2^62.  From 2^63 on the
\* float does not fit an int64 and the conversion gives what the machine
\* gives: the smallest int64 (amd64) or the largest (arm64).
PowDuration(e) == IF e <= 62 THEN {Pow2Int64(e)} ELSE {MinInt64, MaxInt64}

\* The delay retryWithBackoff computes before attempt `att` >= 1.
BackoffDelay(p) ==
    LET d == Mul64(p, defaultRetryInitialDelay)
    IN  IF Gt64(d, MaxDelay) THEN MaxDelay ELSE d

BackoffDelays(att) == {BackoffDelay(p) : p \in PowDuration(att - 1)}

\* time.After(d) is ready at once when d <= 0.
IsPositive64(d) == Gt64(d, Int64(0))

(***************************************************************************)
(* The keys of the model's store.                                           *)
(***************************************************************************)
Instant(i) == [year |-> 2025, month |-> 12, day |-> i, hour |-> 9 - i,
               min |-> 57, sec |-> 39, nsec |-> 0]

BackupKey(i) == GenerateBackupFilename(Instant(i))

\* Instant(1) with its hour written with one digit: another name of the
\* instant of BackupKey(1).
ShortHourKey ==
    LET t == Instant(1)
    IN  BackupPrefix \o Pad4(t.year) \o <<"-">> \o Pad2(t.month) \o <<"-">> \o Pad2(t.day)
          \o <<"T", Digits[t.hour + 1], "-">> \o Pad2(t.min) \o <<"-">> \o Pad2(t.sec)
          \o <<"Z">> \o BackupSuffix

\* A backup name whose month is 13.
BadMonthKey ==
    BackupPrefix \o <<"2", "0", "2", "5", "-", "1", "3", "-", "0", "1", "T",
                      "0", "0", "-", "0", "0", "-", "0", "0", "Z">> \o BackupSuffix

\* notes.unf: the suffix without the prefix.
ForeignKey == <<"n", "o", "t", "e", "s">> \o BackupSuffix

\* readme.txt: an unrelated object.
OtherKey == <<"r", "e", "a", "d", "m", "e", ".", "t", "x", "t">>

WellFormedKeys == {BackupKey(i) : i \in 1..NumInstants}

KeyUniverse == WellFormedKeys \cup {ShortHourKey, BadMonthKey, ForeignKey, OtherKey}

\* The contents of the store cleanupOldBackups alone is given.
StoreContents == {S \in SUBSET KeyUniverse : Cardinality(S) <= MaxObjects}

\* The contents the store of a run may have when it is opened.
RunContents == {S \in SUBSET KeyUniverse : Cardinality(S) <= MaxRunObjects}

\* The sequences that hold each element of S once.
SeqsOf(S) ==
    LET n == Cardinality(S)
    IN  {f \in [1..n -> S] : \A i, j \in 1..n : i # j => f[i] # f[j]}

Range(f) == {f[i] : i \in DOMAIN f}

(***************************************************************************)
(* Text functions of strings, path and net/url, as parseSMBURL and          *)
(* smbStore.Put call them.  The inputs drawn hold printable ASCII only and  *)
(* no "." or ".." path elements.                                            *)
(***************************************************************************)
Lower == <<"a", "b", "c", "d", "e", "f", "g", "h", "i", "j", "k", "l", "m",
           "n", "o", "p", "q", "r", "s", "t", "u", "v", "w", "x", "y", "z">>

Upper == <<"A", "B", "C", "D", "E", "F", "G", "H", "I", "J", "K", "L", "M",
           "N", "O", "P", "Q", "R", "S", "T", "U", "V", "W", "X", "Y", "Z">>

Letters == Range(Lower) \cup Range(Upper)

\* The printable ASCII characters, from code 32 (space) to code 126; the
\* grave accent, code 96, is written "grave".
Ascii == <<" ", "!", "\"", "#", "$", "%", "&", "'", "(", ")", "*", "+", ",", "-", ".", "/">>
         \o Digits \o <<":", ";", "<", "=", ">", "?", "@">> \o Upper
         \o <<"[", "\\", "]", "^", "_", "grave">> \o Lower \o <<"{", "|", "}", "~">>

\* strings.ToLower, one character.
ToLowerChar(c) ==
    IF c \in Range(Upper) THEN Lower[CHOOSE i \in 1..26 : Upper[i] = c] ELSE c

ToLower(s) == [i \in 1..Len(s) |-> ToLowerChar(s[i])]

\* strings.IndexByte, counted from 1; 0 when c is not in s.
IndexOf(s, c) ==
    IF \E i \in 1..Len(s) : s[i] = c
    THEN CHOOSE i \in 1..Len(s) : s[i] = c /\ \A j \in 1..(i - 1) : s[j] # c
    ELSE 0

\* strings.LastIndexByte, counted from 1; 0 when c is not in s.
LastIndexOf(s, c) ==
    IF \E i \in 1..Len(s) : s[i] = c
    THEN CHOOSE i \in 1..Len(s) : s[i] = c /\ \A j \in (i + 1)..Len(s) : s[j] # c
    ELSE 0

Contains(s, c) == IndexOf(s, c) # 0

\* strings.Cut(s, c) and strings.SplitN(s, c, 2): the text before the first
\* c and the text after it; found tells whether there is a c.
Cut(s, c) ==
    LET i == IndexOf(s, c)
    IN  IF i = 0 THEN [before |-> s, after |-> <<>>, found |-> FALSE]
        ELSE [before |-> SubSeq(s, 1, i - 1), after |-> Drop(s, i), found |-> TRUE]

AllDigits(s) == \A i \in 1..Len(s) : IsDigit(s, i)

RECURSIVE Atoi(_)
\* The decimal number s writes.
Atoi(s) == IF s = <<>> THEN 0 ELSE 10 * Atoi(SubSeq(s, 1, Len(s) - 1)) + DigitVal(s[Len(s)])

\* net/url ishex, unhex.
IsHex(c) == c \in Range(Digits) \cup {"a", "b", "c", "d", "e", "f", "A", "B", "C", "D", "E", "F"}

UnHex(c) ==
    IF c \in Range(Digits) THEN DigitVal(c)
    ELSE LET l == ToLowerChar(c) IN 9 + (CHOOSE i \in 1..6 : Lower[i] = l)

\* The character of a byte.
ByteChar(n) == IF n >= 32 /\ n <= 126 THEN Ascii[n - 31] ELSE "?"

\* net/url unescape for user, password and path: every %XX is well formed.
EscapesValid(s) ==
    \A i \in 1..Len(s) :
        s[i] = "%" => (i + 2 <= Len(s) /\ IsHex(s[i + 1]) /\ IsHex(s[i + 2]))

RECURSIVE Unescape(_)
\* net/url unescape for user, password and path: %XX gives its byte.
Unescape(s) ==
    IF s = <<>> THEN <<>>
    ELSE IF s[1] = "%" /\ Len(s) >= 3
         THEN <<ByteChar(16 * UnHex(s[2]) + UnHex(s[3]))>> \o Unescape(Drop(s, 3))
         ELSE <<s[1]>> \o Unescape(Drop(s, 1))

\* net/url getScheme: the scheme and the rest, or an error.
RECURSIVE GetScheme(_, _)
GetScheme(rawURL, i) ==
    IF i > Len(rawURL) THEN [err |-> FALSE, scheme |-> <<>>, rest |-> rawURL]
    ELSE LET c == rawURL[i]
         IN  IF c \in Letters THEN GetScheme(rawURL, i + 1)
             ELSE IF c \in Range(Digits) \cup {"+", "-", "."}
             THEN IF i = 1 THEN [err |-> FALSE, scheme |-> <<>>, rest |-> rawURL]
                  ELSE GetScheme(rawURL, i + 1)
             ELSE IF c = ":"
             THEN IF i = 1 THEN [err |-> TRUE, scheme |-> <<>>, rest |-> <<>>]
                  ELSE [err |-> FALSE, scheme |-> SubSeq(rawURL, 1, i - 1),
                        rest |-> Drop(rawURL, i)]
             ELSE [err |-> FALSE, scheme |-> <<>>, rest |-> rawURL]

\* net/url validOptionalPort: empty, or a colon and digits.
ValidOptionalPort(port) ==
    port = <<>> \/ (port[1] = ":" /\ AllDigits(Drop(port, 1)))

\* net/url validUserinfo
UserinfoChars ==
    Letters \cup Range(Digits)
      \cup {"-", ".", "_", ":", "~", "!", "$", "&", "'", "(", ")", "*", "+", ",", ";", "=", "%", "@"}

ValidUserinfo(s) == \A i \in 1..Len(s) : s[i] \in UserinfoChars

\* net/url shouldEscape for a host: the characters a host may hold.
HostChars ==
    Letters \cup Range(Digits)
      \cup {"-", "_", ".", "~", "!", "$", "&", "'", "(", ")", "*", "+", ",", ";", "=", ":",
            "[", "]", "<", ">", "\"", "%"}

\* net/url parseHost: the port after the last colon is digits, the host holds
\* host characters.
ValidHost(host) ==
    /\ \A i \in 1..Len(host) : host[i] \in HostChars
    /\ LET i == LastIndexOf(host, ":")
       IN  (host # <<>> /\ host[1] = "[") \/ i = 0 \/ ValidOptionalPort(Drop(host, i - 1))

\* A variant that ends the user information at the first "@".
FirstAt(authority) == IndexOf(authority, "@")

\* net/url parseAuthority: i := strings.LastIndex(authority, "@")
\* A variant that finds no user information.
NoDelimiter(authority) == 0

AuthorityDelimiter(authority) == LastIndexOf(authority, "@")

NoUser == [set |-> FALSE, username |-> <<>>, password |-> <<>>]

\* net/url parseAuthority: the user information ends at the last "@"; the
\* password begins after its first ":".
ParseAuthority(authority) ==
    LET i == AuthorityDelimiter(authority)
        host == Drop(authority, i)
        userinfo == SubSeq(authority, 1, i - 1)
        c == Cut(userinfo, ":")
    IN  IF ~ValidHost(host) THEN [err |-> TRUE, user |-> NoUser, host |-> <<>>]
        ELSE IF i = 0 THEN [err |-> FALSE, user |-> NoUser, host |-> host]
        ELSE IF ~ValidUserinfo(userinfo) \/ ~EscapesValid(userinfo)
        THEN [err |-> TRUE, user |-> NoUser, host |-> <<>>]
        ELSE [err |-> FALSE, host |-> host,
              user |-> [set |-> TRUE, username |-> Unescape(c.before),
                        password |-> Unescape(c.after)]]

URLError == [err |-> TRUE, scheme |-> <<>>, user |-> NoUser, host |-> <<>>, path |-> <<>>]

\* url.Parse: fragment and query are cut off, then scheme, authority, path.
URLParse(rawURL) ==
    LET g == GetScheme(Cut(rawURL, "#").before, 1)
        scheme == ToLower(g.scheme)
        rest == Cut(g.rest, "?").before
        hasAuthority == HasPrefix(rest, <<"/", "/">>) /\ (scheme # <<>> \/ ~HasPrefix(rest, <<"/", "/", "/">>))
        afterSlashes == Drop(rest, 2)
        cut == IndexOf(afterSlashes, "/")
        authority == IF cut = 0 THEN afterSlashes ELSE SubSeq(afterSlashes, 1, cut - 1)
        pathText == IF ~hasAuthority THEN rest
                    ELSE IF cut = 0 THEN <<>> ELSE Drop(afterSlashes, cut - 1)
        a == ParseAuthority(authority)
    IN  IF g.err THEN URLError
        ELSE IF ~HasPrefix(rest, <<"/">>) /\ scheme # <<>>
        THEN [err |-> FALSE, scheme |-> scheme, user |-> NoUser, host |-> <<>>, path |-> <<>>]
        ELSE IF ~HasPrefix(rest, <<"/">>) /\ Contains(Cut(rest, "/").before, ":")
        THEN URLError
        ELSE IF hasAuthority /\ a.err THEN URLError
        ELSE IF ~EscapesValid(pathText) THEN URLError
        ELSE [err |-> FALSE, scheme |-> scheme,
              user |-> IF hasAuthority THEN a.user ELSE NoUser,
              host |-> IF hasAuthority THEN a.host ELSE <<>>,
              path |-> Unescape(pathText)]

\* net/url splitHostPort, behind URL.Hostname and URL.Port.
SplitHostPort(hostPort) ==
    LET colon == LastIndexOf(hostPort, ":")
        split == colon # 0 /\ ValidOptionalPort(Drop(hostPort, colon - 1))
        host == IF split THEN SubSeq(hostPort, 1, colon - 1) ELSE hostPort
    IN  [host |-> IF HasPrefix(host, <<"[">>) /\ HasSuffix(host, <<"]">>)
                  THEN SubSeq(host, 2, Len(host) - 1) ELSE host,
         port |-> IF split THEN Drop(hostPort, colon) ELSE <<>>]

DefaultPort == 445

NoConfig == [Host |-> <<>>, Port |-> 0, Username |-> <<>>, Password |-> <<>>,
             Domain |-> <<>>, Share |-> <<>>, BasePath |-> <<>>]

SmbScheme == <<"s", "m", "b">>

\* A variant that takes a URL of any scheme.
AnyScheme(scheme) == TRUE

\* parseSMBURL: the scheme must be smb.
SchemeAccepted(scheme) == scheme = SmbScheme

\* parseSMBURL: the configuration of an smb:// URL, or an error.
parseSMBURL(smbURL) ==
    LET u == URLParse(smbURL)
        hp == SplitHostPort(u.host)
        name == u.user.username
        semi == Cut(name, ";")
        back == Cut(name, "\\")
        pathParts == Cut(TrimPrefix(u.path, <<"/">>), "/")
    IN  IF u.err \/ ~SchemeAccepted(u.scheme) \/ pathParts.before = <<>>
        THEN [err |-> TRUE, cfg |-> NoConfig]
        ELSE [err |-> FALSE,
              cfg |-> [Host |-> hp.host,
                       Port |-> IF hp.port # <<>> THEN Atoi(hp.port) ELSE DefaultPort,
                       Username |-> IF semi.found THEN semi.after
                                    ELSE IF back.found THEN back.after ELSE name,
                       Password |-> u.user.password,
                       Domain |-> IF semi.found THEN semi.before
                                  ELSE IF back.found THEN back.before ELSE <<>>,
                       Share |-> pathParts.before,
                       BasePath |-> pathParts.after]]

RECURSIVE CollapseSlashes(_)
\* path.Clean, for a path without "." and ".." elements: runs of slashes
\* become one slash.
CollapseSlashes(p) ==
    IF Len(p) < 2 THEN p
    ELSE IF p[1] = "/" /\ p[2] = "/" THEN CollapseSlashes(Drop(p, 1))
    ELSE <<p[1]>> \o CollapseSlashes(Drop(p, 1))

\* path.Clean, for a path without "." and ".." elements: no slash at the end
\* unless the path is the root, and "." for the empty path.
PathClean(p) ==
    LET c == CollapseSlashes(p)
    IN  IF c = <<>> THEN <<".">>
        ELSE IF Len(c) > 1 /\ c[Len(c)] = "/" THEN SubSeq(c, 1, Len(c) - 1)
        ELSE c

\* path.Join(a, b): empty elements are left out, the result is cleaned; the
\* join of nothing is the empty path.
PathJoin(a, b) ==
    IF a = <<>> /\ b = <<>> THEN <<>>
    ELSE IF a = <<>> THEN PathClean(b)
    ELSE IF b = <<>> THEN PathClean(a)
    ELSE PathClean(a \o <<"/">> \o b)

\* path.Dir(p): what stands before the last slash, cleaned.
PathDir(p) == PathClean(SubSeq(p, 1, LastIndexOf(p, "/")))

(***************************************************************************)
(* State.                                                                   *)
(***************************************************************************)
VARIABLES
    pc,           \* where the run is
    maxRetries,   \* cfg.UniFi.MaxRetries, or the maxRetries argument
    keepLast,     \* cfg.Retention.KeepLast, or the keepLast argument
    sigDone,      \* ctx of main is cancelled (interrupt or SIGTERM)
    dlErr,        \* downloadCtx.Err(): "none", "canceled" or "deadline"
    attempt,      \* retryWithBackoff: the loop variable
    lastErr,      \* retryWithBackoff: lastErr
    delay,        \* retryWithBackoff: delay of the wait in progress
    retryErr,     \* what retryWithBackoff returned
    opDoomed,     \* the context was done when the attempt in progress started
    invocations,  \* history: the calls of operation()
    waits,        \* history: the waits entered
    firedAt,      \* history: where the harness was when its context got done
    store,        \* the keys of the objects in the store (read once it is open)
    handle,       \* the store handle: "none", "open", or "closed" by store.Close()
    adapter,      \* the adapter storage.Open chose: "none", "blob" or "smb"
    outName,      \* main: outName
    files,        \* cleanupOldBackups: files
    backups,      \* cleanupOldBackups: backups, sorted
    idx,          \* cleanupOldBackups: i
    cleanupErr,   \* what cleanupOldBackups returned
    listed,       \* history: the store when List ran
    listRet,      \* history: what store.List returned: "ok" or "err"
    deleteCalls,  \* history: the calls of store.Delete, <<key, ok>>, in order
    stages,       \* history: the stages started, [stage, result, ctx], in order
    url,          \* storage.Open: storageURL, while Open runs
    parts,        \* history: the parts storageURL was written from
    cfg,          \* OpenSMBStore: cfg, while it runs
    session,      \* the SMB session: its state, authenticated, tree-connected
    smbStore,     \* the fields share and basePath of the smbStore
    lastOp,       \* history: the last call on the store and what it did
    putSince,     \* history: the keys Put with success and not deleted since
    closes,       \* history: the calls of Close
    instant,      \* the instant given to GenerateBackupFilename
    backupName,   \* a filename: made by GenerateBackupFilename, given to ParseBackupFilename
    parsed,       \* what ParseBackupFilename returned
    urlErr,       \* parseSMBURL returned an error
    pr,           \* the progressReader: total, read, lastLogged, logInterval
    source,       \* what the wrapped reader has still to give
    srcErr,       \* how the wrapped reader ends: "eof" or "fail"
    delivered,    \* history: the bytes the reads have returned
    observations, \* history: the progress records logged, in order
    elapsed,      \* time.Since(pr.startTime) is positive
    sizeCheck     \* history: the lengths main compared after Put

retryVars == <<attempt, lastErr, delay, retryErr, opDoomed, invocations, waits, firedAt>>

cleanupVars == <<files, backups, idx, cleanupErr, listed, listRet, deleteCalls>>

ctxVars == <<sigDone, dlErr>>

cfgVars == <<maxRetries, keepLast>>

vars == <<pc, maxRetries, keepLast, sigDone, dlErr, attempt, lastErr, delay, retryErr,
          opDoomed, invocations, waits, firedAt, store, handle, adapter, outName, files,
          backups, idx, cleanupErr, listed, listRet, deleteCalls, stages, url, parts,
          cfg, session, smbStore, lastOp, putSince, closes, instant, backupName, parsed,
          urlErr,
          pr, source, srcErr, delivered, observations, elapsed, sizeCheck>>

codecVars == <<instant, backupName, parsed, urlErr>>

progressVars == <<pr, source, srcErr, delivered, observations, elapsed>>

storeVars == <<url, parts, cfg, session, smbStore, lastOp, putSince, closes>>

\* storage.Open: smb:// gives the SMB adapter, every other URL the blob adapter.
Adapters == {"blob", "smb"}

NeverFired == [pc |-> "never", attempt |-> 0]

NoName == <<>>

\* An error value is a pair: its kind and, for an error of the operation,
\* the invocation that returned it.  Nil is the nil error.
Nil == <<"nil", 0>>

\* ctx.Err() of a context that is done: context.Canceled or
\* context.DeadlineExceeded.
CtxErr(e) == <<e, 0>>

ListError == <<"listErr", 0>>

\* No session: smb.NewConnection has not returned one.
NoSession == [state |-> "none", authenticated |-> FALSE, tree |-> FALSE]

NoSmbStore == [share |-> <<>>, basePath |-> <<>>]

\* No call on the store yet.
NoOp == [op |-> "none", key |-> <<>>, mkdir |-> "none", write |-> "none",
         release |-> "none", ret |-> "ok"]

\* No storage URL: the store is given, not opened from a URL.
NoParts == [kind |-> "none", sep |-> "none", domain |-> <<>>, user |-> <<>>,
            hasPass |-> FALSE, pass |-> <<>>, host |-> <<>>, port |-> 0,
            share |-> <<>>, hasBase |-> FALSE, base |-> <<>>]

\* Nothing parsed yet; also what ParseBackupFilename returns with an error.
NotParsed == [ok |-> FALSE, t |-> ZeroTime]

\* The codec is not in use.
CodecIdle ==
    /\ instant = ZeroTime
    /\ backupName = NoName
    /\ parsed = NotParsed
    /\ urlErr = FALSE

NoReader == [total |-> 0, read |-> 0, lastLogged |-> 0, logInterval |-> 0]

NoSource == [data |-> <<>>, pos |-> 0]

\* No progress reader.
ProgressIdle ==
    /\ pr = NoReader
    /\ source = NoSource
    /\ srcErr = "eof"
    /\ delivered = <<>>
    /\ observations = <<>>
    /\ elapsed = FALSE

\* main has not compared the lengths.
NoSizeCheck == [expected |-> 0, written |-> 0, warned |-> FALSE, saved |-> FALSE]

\* The values common to the initial states of the specifications.
Fresh ==
    /\ sigDone = FALSE
    /\ dlErr = "none"
    /\ attempt = 0
    /\ lastErr = Nil
    /\ delay = Int64(0)
    /\ retryErr = Nil
    /\ opDoomed = FALSE
    /\ invocations = 0
    /\ waits = 0
    /\ firedAt = NeverFired
    /\ outName = NoName
    /\ files = <<>>
    /\ backups = <<>>
    /\ idx = 0
    /\ cleanupErr = Nil
    /\ listed = {}
    /\ listRet = "none"
    /\ deleteCalls = <<>>
    /\ stages = <<>>
    /\ cfg = NoConfig
    /\ session = NoSession
    /\ smbStore = NoSmbStore
    /\ lastOp = NoOp
    /\ putSince = {}
    /\ closes = 0
    /\ sizeCheck = NoSizeCheck

(***************************************************************************)
(* The context: an interrupt cancels ctx and with it downloadCtx; the       *)
(* deadline of downloadCtx ends downloadCtx alone.                          *)
(***************************************************************************)
InHarness == pc \in {"retry_loop", "retry_wait", "retry_op"}

Running == pc \notin {"exit0", "exit1"}

\* Where the harness is, for firedAt.
Here == [pc |-> pc, attempt |-> attempt]

\* signal.NotifyContext: SIGINT or SIGTERM arrives.
Interrupt ==
    /\ Running
    /\ ~sigDone
    /\ sigDone' = TRUE
    /\ dlErr' = IF dlErr = "none" THEN "canceled" ELSE dlErr
    /\ firedAt' = IF dlErr = "none" /\ InHarness THEN Here ELSE firedAt
    /\ UNCHANGED <<pc, cfgVars, codecVars, progressVars, sizeCheck, storeVars, attempt, lastErr, delay, retryErr, opDoomed, invocations,
                   waits, store, handle, adapter, outName, cleanupVars, stages>>

\* context.WithTimeout(ctx, timeout): the deadline of downloadCtx passes.
DownloadDeadline ==
    /\ InHarness
    /\ dlErr = "none"
    /\ dlErr' = "deadline"
    /\ firedAt' = Here
    /\ UNCHANGED <<pc, cfgVars, codecVars, progressVars, sizeCheck, storeVars, sigDone, attempt, lastErr, delay, retryErr, opDoomed,
                   invocations, waits, store, handle, adapter, outName, cleanupVars, stages>>

(***************************************************************************)
(* retryWithBackoff: utils.go.                                              *)
(***************************************************************************)
\* A variant whose loop makes one more turn.
LoopEndsLate(att, max) == att > max + 1

\* A variant with attempt < maxRetries as the loop condition.
LoopEndsEarly(att, max) == att >= max

\* The loop ends: attempt <= maxRetries is false.
LoopEnds(att, max) == att > max

\* The head of the loop: the loop condition, the delay before a retry, and
\* for attempt 0 the call of operation().
RetryIterate ==
    /\ pc = "retry_loop"
    /\ IF LoopEnds(attempt, maxRetries)
       THEN /\ pc' = "retry_done"
            /\ retryErr' = lastErr
            /\ UNCHANGED <<delay, waits, invocations, opDoomed>>
       ELSE IF attempt > 0
       THEN /\ \E d \in BackoffDelays(attempt) :
                  /\ delay' = d
                  /\ waits' = waits + 1
            /\ pc' = "retry_wait"
            /\ UNCHANGED <<retryErr, invocations, opDoomed>>
       ELSE /\ pc' = "retry_op"
            /\ invocations' = invocations + 1
            /\ opDoomed' = (dlErr # "none")
            /\ UNCHANGED <<retryErr, delay, waits>>
    /\ UNCHANGED <<cfgVars, codecVars, progressVars, sizeCheck, storeVars, ctxVars, attempt, lastErr, firedAt, store, handle, adapter, outName,
                   cleanupVars, stages>>

\* select, case <-time.After(delay): a positive delay elapses only while the
\* context is not done (the blocked select takes the first event); a delay
\* that is not positive is ready as the select begins.  Then operation().
RetryTimerFires ==
    /\ pc = "retry_wait"
    /\ IsPositive64(delay) => dlErr = "none"
    /\ pc' = "retry_op"
    /\ invocations' = invocations + 1
    /\ opDoomed' = (dlErr # "none")
    /\ UNCHANGED <<cfgVars, codecVars, progressVars, sizeCheck, storeVars, ctxVars, attempt, lastErr, delay, retryErr, waits, firedAt,
                   store, handle, adapter, outName, cleanupVars, stages>>

\* select, case <-ctx.Done(): return ctx.Err()
RetryCtxDone ==
    /\ pc = "retry_wait"
    /\ dlErr # "none"
    /\ pc' = "retry_done"
    /\ retryErr' = CtxErr(dlErr)
    /\ UNCHANGED <<cfgVars, codecVars, progressVars, sizeCheck, storeVars, ctxVars, attempt, lastErr, delay, opDoomed, invocations, waits,
                   firedAt, store, handle, adapter, outName, cleanupVars, stages>>

\* lastErr = operation() and what follows it in the loop body.
AfterOperation(result) ==
    /\ lastErr' = result
    /\ IF result = Nil
       THEN /\ pc' = "retry_done"
            /\ retryErr' = Nil
            /\ UNCHANGED attempt
       ELSE /\ pc' = "retry_loop"
            /\ attempt' = attempt + 1
            /\ UNCHANGED retryErr
    /\ UNCHANGED <<cfgVars, codecVars, progressVars, sizeCheck, storeVars, ctxVars, delay, opDoomed, invocations, waits, firedAt, store,
                   handle, adapter, outName, cleanupVars, stages>>

\* The error of the invocation in progress.
OpError == <<"err", invocations>>

\* An arbitrary operation returns: nil, or an error of its own.
OperationReturn ==
    /\ pc = "retry_op"
    /\ \E result \in {Nil, OpError} : AfterOperation(result)

InitRetry ==
    /\ Fresh
    /\ CodecIdle
    /\ ProgressIdle
    /\ pc = "retry_loop"
    /\ maxRetries \in (0..MaxRetries) \cup {LargeRetries}
    /\ keepLast = 0
    /\ store = {}
    /\ handle = "none"
    /\ adapter = "none"
    /\ parts = NoParts
    /\ url = <<>>

NextRetry ==
    \/ RetryIterate
    \/ RetryTimerFires
    \/ RetryCtxDone
    \/ OperationReturn
    \/ Interrupt
    \/ DownloadDeadline

SpecRetry == InitRetry /\ [][NextRetry]_vars

\* retryWithBackoff given any maxRetries, one below zero included, which
\* Config.Validate keeps from a run of main.
InitRetryAny ==
    /\ Fresh
    /\ CodecIdle
    /\ ProgressIdle
    /\ pc = "retry_loop"
    /\ maxRetries \in (-1..MaxRetries) \cup {LargeRetries}
    /\ keepLast = 0
    /\ store = {}
    /\ handle = "none"
    /\ adapter = "none"
    /\ parts = NoParts
    /\ url = <<>>

SpecRetryAny == InitRetryAny /\ [][NextRetry]_vars

(***************************************************************************)
(* cleanupOldBackups: cleanup.go, over the store of blob.go and smb.go.     *)
(***************************************************************************)
\* The suffix List filters on: strings.HasSuffix(key, ".unf")
ListSuffix == <<".", "u", "n", "f">>

\* blobStore.List: the keys that end with ".unf"
Listable(S) == {k \in S : HasSuffix(k, ListSuffix)}

\* smbStore.List: the entries of the base path that are files and end with
\* ".unf"; the files of its subdirectories are no entries of it.
SmbListable(S) == {k \in S : HasSuffix(k, ListSuffix) /\ ~Contains(k, "/")}

\* store.List of the adapter.
ListOf(a, S) == IF a = "smb" THEN SmbListable(S) ELSE Listable(S)

\* Whether List and Delete of the adapter look at their ctx: blobStore hands
\* it to the bucket (iter.Next(ctx), b.Delete(ctx, key)), which is taken to
\* honour it; smbStore.List and smbStore.Delete never read their ctx parameter.
CtxObserved(a) == a = "blob"

\* The call fails with the context's error instead of doing its work.
Cancelled == sigDone /\ CtxObserved(adapter)

\* A variant that swallows the error of store.List.
ListResultSwallowed(ok) == Nil

\* What cleanupOldBackups returns for the result of store.List.
ListResult(ok) == IF ok THEN Nil ELSE ListError

\* len(files) <= keepLast
NothingToClean(fs, keep) == Len(fs) <= keep

RECURSIVE ParsedBackups(_)
\* The loop over files: a backupInfo for each name that parses, in order.
ParsedBackups(fs) ==
    IF fs = <<>> THEN <<>>
    ELSE LET r == ParseBackupFilename(Head(fs))
         IN  (IF r.ok THEN <<[filename |-> Head(fs), timestamp |-> r.t]>> ELSE <<>>)
               \o ParsedBackups(Tail(fs))

\* A variant that sorts oldest first.
LessOldestFirst(a, b) == After(b.timestamp, a.timestamp)

\* The less function of the sort: backups[i].timestamp.After(backups[j].timestamp)
Less(a, b) == After(a.timestamp, b.timestamp)

\* A variant that leaves the backups in the order of the listing.
InListOrder(bs) == {bs}

\* sort.Slice(backups, less): an order of the same elements in which no later
\* element is less than an earlier one; equal elements in any order (the sort
\* is not stable).
SortSlice(bs) ==
    {p \in SeqsOf(Range(bs)) : \A i, j \in 1..Len(p) : i < j => ~Less(p[j], p[i])}

\* A variant that leaves the loop at the first Delete that fails.
AfterDeleteBreak(i, ok) == IF ok THEN i + 1 ELSE Len(backups)

\* The loop variable after the Delete of backups[i] that returned ok.
AfterDelete(i, ok) == i + 1

\* store.List, the early return, the parse loop and the sort.
CleanupList ==
    /\ pc = "cleanup_list"
    /\ listed' = store
    /\ \/ /\ listRet' = "err"
          /\ cleanupErr' = ListResult(FALSE)
          /\ pc' = "cleanup_done"
          /\ UNCHANGED <<files, backups, idx>>
       \/ \E fs \in SeqsOf(ListOf(adapter, store)) :
            /\ ~Cancelled
            /\ files' = fs
            /\ listRet' = "ok"
            /\ cleanupErr' = ListResult(TRUE)
            /\ IF NothingToClean(fs, keepLast)
               THEN /\ pc' = "cleanup_done"
                    /\ UNCHANGED <<backups, idx>>
               ELSE /\ \E bs \in SortSlice(ParsedBackups(fs)) : backups' = bs
                    /\ idx' = keepLast
                    /\ pc' = "cleanup_delete"
    /\ UNCHANGED <<cfgVars, codecVars, progressVars, sizeCheck, storeVars, ctxVars, retryVars, store, handle, adapter, outName, deleteCalls, stages>>

\* One turn of the deletion loop: store.Delete(ctx, backups[i].filename).
CleanupDelete ==
    /\ pc = "cleanup_delete"
    /\ idx < Len(backups)
    /\ \E ok \in BOOLEAN :
         LET key == backups[idx + 1].filename
         IN  /\ Cancelled => ~ok
             /\ deleteCalls' = Append(deleteCalls, <<key, ok>>)
             /\ store' = IF ok THEN store \ {key} ELSE store
             /\ idx' = AfterDelete(idx, ok)
    /\ UNCHANGED <<pc, cfgVars, codecVars, progressVars, sizeCheck, storeVars, ctxVars, retryVars, handle, adapter, outName, files, backups,
                   cleanupErr, listed, listRet, stages>>

\* The loop is over: return nil.
CleanupReturn ==
    /\ pc = "cleanup_delete"
    /\ idx >= Len(backups)
    /\ pc' = "cleanup_done"
    /\ cleanupErr' = Nil
    /\ UNCHANGED <<cfgVars, codecVars, progressVars, sizeCheck, storeVars, ctxVars, retryVars, store, handle, adapter, outName, files, backups,
                   idx, listed, listRet, deleteCalls, stages>>

InitCleanup ==
    /\ Fresh
    /\ CodecIdle
    /\ ProgressIdle
    /\ pc = "cleanup_list"
    /\ maxRetries = 0
    /\ keepLast \in 1..MaxKeepLast
    /\ store \in StoreContents
    /\ handle = "open"
    /\ adapter \in Adapters
    /\ parts = NoParts
    /\ url = <<>>

NextCleanup ==
    \/ CleanupList
    \/ CleanupDelete
    \/ CleanupReturn

SpecCleanup == InitCleanup /\ [][NextCleanup]_vars

(***************************************************************************)
(* main: main.go.                                                           *)
(***************************************************************************)
\* The instants time.Now() may give.
Instants == {Instant(i) : i \in 1..NumInstants}

\* A variant that goes on after an error.
OnResultContinue(ok, next) == next

\* Where main goes after a step that returned ok or an error: the error
\* branches call os.Exit(1).
OnResult(ok, next) == IF ok THEN next ELSE "exit1"

\* A variant that cleans up whatever keepLast is.
CleanupEnabledAlways(keep) == TRUE

\* if cfg.Retention.KeepLast > 0
CleanupEnabled(keep) == keep > 0

StageResult(ok) == IF ok THEN "ok" ELSE "fail"

\* The context main passes to each stage: loginCtx, backupCtx and downloadCtx
\* are made for their stage, the store calls get ctx itself.
CtxOf(stage) ==
    CASE stage = "login" -> "loginCtx"
      [] stage = "create" -> "backupCtx"
      [] stage = "download" -> "downloadCtx"
      [] OTHER -> "ctx"

\* The contexts made by context.WithTimeout(ctx, ...): 30 seconds, 5 minutes
\* and cfg.UniFi.Timeout; ctx itself, of signal.NotifyContext, has no deadline.
WithTimeout == {"loginCtx", "backupCtx", "downloadCtx"}

Started(stage, result) ==
    Append(stages, [stage |-> stage, result |-> result, ctx |-> CtxOf(stage)])

Finished(result) == [stages EXCEPT ![Len(stages)].result = result]

\* 1. client.Login(loginCtx, ...): the request fails when the context is
\* already done.
Login ==
    /\ pc = "login"
    /\ \E ok \in BOOLEAN :
         /\ sigDone => ~ok
         /\ pc' = OnResult(ok, "create")
         /\ stages' = Started("login", StageResult(ok))
    /\ UNCHANGED <<cfgVars, codecVars, progressVars, sizeCheck, storeVars, ctxVars, retryVars, store, handle, adapter, outName, cleanupVars>>

\* 2. client.CreateBackup(backupCtx, ...)
CreateBackup ==
    /\ pc = "create"
    /\ \E ok \in BOOLEAN :
         /\ sigDone => ~ok
         /\ pc' = OnResult(ok, "download")
         /\ stages' = Started("create", StageResult(ok))
    /\ UNCHANGED <<cfgVars, codecVars, progressVars, sizeCheck, storeVars, ctxVars, retryVars, store, handle, adapter, outName, cleanupVars>>

\* 3. downloadCtx is made and retryWithBackoff is called.
StartDownload ==
    /\ pc = "download"
    /\ pc' = "retry_loop"
    /\ stages' = Started("download", "running")
    /\ UNCHANGED <<cfgVars, codecVars, progressVars, sizeCheck, storeVars, ctxVars, retryVars, store, handle, adapter, outName, cleanupVars>>

\* The operation of the pipeline, client.DownloadBackup(downloadCtx, url),
\* returns: an error when downloadCtx was done as the request began.
DownloadReturn ==
    /\ pc = "retry_op"
    /\ \E result \in {Nil, OpError} :
         /\ opDoomed => result # Nil
         /\ AfterOperation(result)

\* retryWithBackoff has returned: exit on an error, else name the backup.
AfterDownload ==
    /\ pc = "retry_done"
    /\ pc' = OnResult(retryErr = Nil, "open")
    /\ stages' = Finished(StageResult(retryErr = Nil))
    /\ IF retryErr = Nil
       THEN \E now \in Instants : outName' = GenerateBackupFilename(now)
       ELSE UNCHANGED outName
    /\ UNCHANGED <<cfgVars, codecVars, progressVars, sizeCheck, storeVars, ctxVars, retryVars, store, handle, adapter, cleanupVars>>

\* storage.Open(ctx, storageURL); the store holds what it holds.
OpenStore ==
    /\ pc = "open"
    /\ \E ok \in BOOLEAN :
         /\ pc' = OnResult(ok, "put")
         /\ stages' = Started("open", StageResult(ok))
         /\ handle' = IF ok THEN "open" ELSE handle
         /\ IF ok THEN adapter' \in Adapters ELSE UNCHANGED adapter
         /\ IF ok THEN store' \in RunContents ELSE UNCHANGED store
    /\ UNCHANGED <<cfgVars, codecVars, progressVars, sizeCheck, storeVars, ctxVars, retryVars, outName, cleanupVars>>

\* store.Put(ctx, outName, progressReader): the stream is the body of the
\* response to a request made under downloadCtx, a child of ctx, so that its
\* reads fail once ctx is cancelled, whichever the adapter.
Put ==
    /\ pc = "put"
    /\ \E ok \in BOOLEAN :
         /\ sigDone => ~ok
         /\ pc' = OnResult(ok, "saved")
         /\ stages' = Started("put", StageResult(ok))
         /\ store' = IF ok THEN store \cup {outName} ELSE store
    /\ UNCHANGED <<cfgVars, codecVars, progressVars, sizeCheck, storeVars, ctxVars, retryVars, handle, adapter, outName, cleanupVars>>

\* dlResp.ContentLength: -1 when the length is unknown, else the length the
\* download announced.
ContentLengths == {-1, BodyLength}

\* What a Put that succeeded returned: the whole body, or less.
WrittenLengths == {BodyLength - 1, BodyLength}

\* dlResp.ContentLength > 0 && written != dlResp.ContentLength
SizeMismatch(expected, written) == expected > 0 /\ written # expected

\* A variant in which a mismatch ends the run.
OnMismatchFatal(mismatch, next) == IF mismatch THEN "exit1" ELSE next

\* Where main goes after the comparison of the lengths: a mismatch is logged
\* as a warning and main goes on.
OnMismatch(mismatch, next) == next

\* 4. Put has succeeded: the lengths are compared, the backup is logged as
\* saved, and cleanupOldBackups is called when retention is on; without it
\* main returns and its deferred store.Close() runs.
AfterPut ==
    /\ pc = "saved"
    /\ \E expected \in ContentLengths, written \in WrittenLengths :
         LET mismatch == SizeMismatch(expected, written)
         IN  /\ sizeCheck' = [expected |-> expected, written |-> written,
                              warned |-> mismatch, saved |-> TRUE]
             /\ IF CleanupEnabled(keepLast)
                THEN /\ pc' = OnMismatch(mismatch, "cleanup_list")
                     /\ stages' = Started("cleanup", "running")
                     /\ UNCHANGED handle
                ELSE /\ pc' = OnMismatch(mismatch, "exit0")
                     /\ handle' = "closed"
                     /\ UNCHANGED stages
    /\ UNCHANGED <<cfgVars, codecVars, progressVars, storeVars, ctxVars, retryVars, store, adapter,
                   outName, cleanupVars>>

\* A variant in which an error of the cleanup fails the run.
AfterCleanupFatal(err) == IF err = Nil THEN "exit0" ELSE "exit1"

\* Where main goes with the result of cleanupOldBackups: an error is logged
\* as a warning and main returns as it does without one.
AfterCleanup(err) == "exit0"

\* cleanupOldBackups has returned: its error is logged, main returns and its
\* deferred store.Close() runs.
MainReturn ==
    /\ pc = "cleanup_done"
    /\ pc' = AfterCleanup(cleanupErr)
    /\ handle' = "closed"
    /\ stages' = Finished(StageResult(cleanupErr = Nil))
    /\ UNCHANGED <<cfgVars, codecVars, progressVars, sizeCheck, storeVars, ctxVars, retryVars, store, adapter, outName, cleanupVars>>

Init ==
    /\ Fresh
    /\ CodecIdle
    /\ ProgressIdle
    /\ pc = "login"
    /\ maxRetries \in 0..MaxRetries
    /\ keepLast \in 0..MaxKeepLast
    /\ store = {}
    /\ handle = "none"
    /\ adapter = "none"
    /\ parts = NoParts
    /\ url = <<>>

Next ==
    \/ Login
    \/ CreateBackup
    \/ StartDownload
    \/ RetryIterate
    \/ RetryTimerFires
    \/ RetryCtxDone
    \/ DownloadReturn
    \/ AfterDownload
    \/ OpenStore
    \/ Put
    \/ AfterPut
    \/ CleanupList
    \/ CleanupDelete
    \/ CleanupReturn
    \/ MainReturn
    \/ Interrupt
    \/ DownloadDeadline

Spec == Init /\ [][Next]_vars

(***************************************************************************)
(* The object store: storage.Open, OpenSMBStore, and Put, List, Delete and  *)
(* Close of blobStore and smbStore, called by an arbitrary client.          *)
(***************************************************************************)
SmbPrefix == <<"s", "m", "b", ":", "/", "/">>

\* The text of a port number.
RECURSIVE PortText(_)
PortText(n) == IF n < 10 THEN <<Digits[n + 1]>> ELSE PortText(n \div 10) \o <<Digits[(n % 10) + 1]>>

\* The separator between domain and user: a semicolon, or a backslash
\* written %5C.
SepText(sep) == IF sep = "semi" THEN <<";">> ELSE <<"%", "5", "C">>

WorkGroup == <<"W", "G">>

PlainUser == <<"j", "o">>

\* A user name that looks like an e-mail address.
MailUser == <<"j", "o", "@", "x", ".", "y">>

PlainPass == <<"p", "w">>

\* A password with an "@" in it.
AtPass == <<"p", "@", "w">>

HostName == <<"n", "a", "s">>

ShareName == <<"b", "k">>

\* The paths after the share: one directory, two directories, and a lone
\* slash (smb://nas/bk//).
BasePaths == {<<"u">>, <<"u", "d">>, <<"/">>}

\* smb://nas/bk and the like, without credentials.
BareParts ==
    {[kind |-> "smb", sep |-> "none", domain |-> <<>>, user |-> <<>>, hasPass |-> FALSE,
      pass |-> <<>>, host |-> HostName, port |-> p, share |-> ShareName,
      hasBase |-> b # <<>>, base |-> b] : p \in {0, 139}, b \in BasePaths \cup {<<>>}}

\* smb://[DOMAIN<sep>]user[:pass]@host[:port]/share[/path]
CredParts ==
    {[kind |-> "smb", sep |-> x[1], domain |-> IF x[1] = "none" THEN <<>> ELSE WorkGroup,
      user |-> x[2], hasPass |-> x[3] # <<>>, pass |-> x[3], host |-> HostName,
      port |-> x[4], share |-> ShareName, hasBase |-> x[5] # <<>>, base |-> x[5]] :
        x \in {"none", "semi", "back"} \X {PlainUser, MailUser}
                \X {<<>>, PlainPass, AtPass} \X {0, 139} \X (BasePaths \cup {<<>>})}

\* file:///d, a URL of the blob adapter.
FileParts == [NoParts EXCEPT !.kind = "file"]

FileURL == <<"f", "i", "l", "e", ":", "/", "/", "/", "d">>

\* The URL written from its parts.
URLOf(p) ==
    IF p.kind = "file" THEN FileURL
    ELSE SmbPrefix
           \o (IF p.user = <<>> THEN <<>>
               ELSE (IF p.sep = "none" THEN <<>> ELSE p.domain \o SepText(p.sep))
                      \o p.user \o (IF p.hasPass THEN <<":">> \o p.pass ELSE <<>>) \o <<"@">>)
           \o p.host \o (IF p.port = 0 THEN <<>> ELSE <<":">> \o PortText(p.port))
           \o <<"/">> \o p.share \o (IF p.hasBase THEN <<"/">> \o p.base ELSE <<>>)

StorageURLs == BareParts \cup CredParts \cup {FileParts}

\* A backup in a directory of its own: old/unifi-backup-...
NestedKey == <<"o", "l", "d", "/">> \o BackupKey(2)

\* The keys the client of the store uses.
StoreKeys == {BackupKey(1), NestedKey, OtherKey}

\* A variant that closes the session when authentication failed but not
\* when the share could not be connected.
SessionLeftOpen(stage) == IF stage = "tree" THEN "open" ELSE "closed"

\* OpenSMBStore: session.Close() before each error return that follows
\* smb.NewConnection.
SessionAfterFailure(stage) == "closed"

\* A variant that fails the Put when MkdirAll failed for another reason than
\* a collision.
PutOutcomeStrict(mk, wr) == IF wr = "ok" /\ mk # "denied" THEN "ok" ELSE "err"

\* smbStore.Put: the error of MkdirAll is dropped, the error of PutFile is
\* returned.
PutOutcome(mk, wr) == IF wr = "ok" THEN "ok" ELSE "err"

\* smbStore.Put: MkdirAll is called unless the directory of the target is
\* "." or "/"; it gives nil, a collision, or another error.
MkdirResults(dir) ==
    IF dir # <<".">> /\ dir # <<"/">> THEN {"ok", "collision", "denied"} ELSE {"skipped"}

\* What Close returns: blobStore.Close returns the error of Bucket.Close,
\* smbStore.Close logs the error of TreeDisconnect and returns nil.
CloseResult(a, release) == IF a = "blob" /\ release = "fail" THEN "err" ELSE "ok"

\* The store is returned to the caller: the locals of Open are gone.
Opened(a) ==
    /\ pc' = "store_ready"
    /\ handle' = "open"
    /\ adapter' = a
    /\ store' \in SUBSET StoreKeys
    /\ url' = <<>>
    /\ parts' = NoParts
    /\ cfg' = NoConfig

\* storage.Open: an smb:// URL goes to OpenSMBStore, any other to
\* blob.OpenBucket.
StorageOpen ==
    /\ pc = "store_open"
    /\ IF HasPrefix(url, SmbPrefix)
       THEN /\ pc' = "smb_parse"
            /\ UNCHANGED <<store, handle, adapter, url, parts, cfg>>
       ELSE \/ Opened("blob")
            \/ /\ pc' = "open_failed"
               /\ UNCHANGED <<store, handle, adapter, url, parts, cfg>>
    /\ UNCHANGED <<cfgVars, codecVars, progressVars, sizeCheck, ctxVars, retryVars, cleanupVars, outName, stages, session,
                   smbStore, lastOp, putSince, closes>>

\* OpenSMBStore: parseSMBURL(smbURL)
SmbParse ==
    /\ pc = "smb_parse"
    /\ LET r == parseSMBURL(url)
       IN  /\ pc' = IF r.err THEN "open_failed" ELSE "smb_connect"
           /\ cfg' = r.cfg
    /\ UNCHANGED <<cfgVars, codecVars, progressVars, sizeCheck, ctxVars, retryVars, cleanupVars, outName, stages, store, handle,
                   adapter, url, parts, session, smbStore, lastOp, putSince, closes>>

\* OpenSMBStore: smb.NewConnection(options) gives a session, authenticated
\* or not, or an error.
SmbConnect ==
    /\ pc = "smb_connect"
    /\ \/ /\ pc' = "open_failed"
          /\ UNCHANGED session
       \/ \E auth \in BOOLEAN :
            /\ session' = [state |-> "open", authenticated |-> auth, tree |-> FALSE]
            /\ pc' = "smb_auth"
    /\ UNCHANGED <<cfgVars, codecVars, progressVars, sizeCheck, ctxVars, retryVars, cleanupVars, outName, stages, store, handle,
                   adapter, url, parts, cfg, smbStore, lastOp, putSince, closes>>

\* OpenSMBStore: if !session.IsAuthenticated() { session.Close(); return error }
SmbAuthCheck ==
    /\ pc = "smb_auth"
    /\ IF session.authenticated
       THEN /\ pc' = "smb_tree"
            /\ UNCHANGED session
       ELSE /\ pc' = "open_failed"
            /\ session' = [session EXCEPT !.state = SessionAfterFailure("auth")]
    /\ UNCHANGED <<cfgVars, codecVars, progressVars, sizeCheck, ctxVars, retryVars, cleanupVars, outName, stages, store, handle,
                   adapter, url, parts, cfg, smbStore, lastOp, putSince, closes>>

\* OpenSMBStore: session.TreeConnect(cfg.Share), and the return of the store
\* or of the error after session.Close().
SmbTreeConnect ==
    /\ pc = "smb_tree"
    /\ \/ /\ Opened("smb")
          /\ session' = [session EXCEPT !.tree = TRUE]
          /\ smbStore' = [share |-> cfg.Share, basePath |-> cfg.BasePath]
       \/ /\ pc' = "open_failed"
          /\ session' = [session EXCEPT !.state = SessionAfterFailure("tree")]
          /\ UNCHANGED <<store, handle, adapter, url, parts, cfg, smbStore>>
    /\ UNCHANGED <<cfgVars, codecVars, progressVars, sizeCheck, ctxVars, retryVars, cleanupVars, outName, stages, lastOp,
                   putSince, closes>>

Usable == pc = "store_ready" /\ handle = "open"

\* The client keeps the result of a List until its next call on the store.
ListDropped ==
    /\ files' = <<>>
    /\ listed' = {}
    /\ listRet' = "none"

\* What a Put leaves in the store: the object when the write succeeded; when
\* it failed, the object may be there in part.
AfterWrite(key, wr) ==
    IF wr = "ok" THEN {store \cup {key}} ELSE {store, store \cup {key}}

\* blobStore.Put(ctx, key, r): NewWriter, io.Copy, Close.
BlobPut ==
    /\ Usable
    /\ adapter = "blob"
    /\ \E key \in StoreKeys, wr \in {"ok", "fail"} :
         /\ store' \in AfterWrite(key, wr)
         /\ lastOp' = [NoOp EXCEPT !.op = "put", !.key = key, !.write = wr,
                                   !.ret = IF wr = "ok" THEN "ok" ELSE "err"]
         /\ putSince' = IF wr = "ok" THEN putSince \cup {key} ELSE putSince
    /\ ListDropped
    /\ UNCHANGED <<pc, cfgVars, codecVars, progressVars, sizeCheck, ctxVars, retryVars, backups, idx, cleanupErr, deleteCalls,
                   outName, stages, handle, adapter, url, parts, cfg, session, smbStore,
                   closes>>

\* smbStore.Put(ctx, key, r): MkdirAll of the directory of the target, then
\* PutFile.
SmbPut ==
    /\ Usable
    /\ adapter = "smb"
    /\ \E key \in StoreKeys, wr \in {"ok", "fail"} :
         LET fullPath == PathJoin(smbStore.basePath, key)
         IN  \E mk \in MkdirResults(PathDir(fullPath)) :
               /\ store' \in AfterWrite(key, wr)
               /\ lastOp' = [NoOp EXCEPT !.op = "put", !.key = key, !.mkdir = mk,
                                         !.write = wr, !.ret = PutOutcome(mk, wr)]
               /\ putSince' = IF PutOutcome(mk, wr) = "ok" THEN putSince \cup {key}
                              ELSE putSince
    /\ ListDropped
    /\ UNCHANGED <<pc, cfgVars, codecVars, progressVars, sizeCheck, ctxVars, retryVars, backups, idx, cleanupErr, deleteCalls,
                   outName, stages, handle, adapter, url, parts, cfg, session, smbStore,
                   closes>>

\* blobStore.List, smbStore.List: the keys that pass the filter, in some
\* order, or an error.
StoreList ==
    /\ Usable
    /\ listed' = store
    /\ \/ /\ listRet' = "err"
          /\ lastOp' = [NoOp EXCEPT !.op = "list", !.ret = "err"]
          /\ UNCHANGED files
       \/ \E fs \in SeqsOf(ListOf(adapter, store)) :
            /\ files' = fs
            /\ listRet' = "ok"
            /\ lastOp' = [NoOp EXCEPT !.op = "list"]
    /\ UNCHANGED <<pc, cfgVars, codecVars, progressVars, sizeCheck, ctxVars, retryVars, backups, idx, cleanupErr, deleteCalls,
                   outName, stages, store, handle, adapter, url, parts, cfg, session,
                   smbStore, putSince, closes>>

\* blobStore.Delete, smbStore.Delete: the object is removed or an error is
\* returned; there is nothing to remove when the key is not in the store.
StoreDelete ==
    /\ Usable
    /\ \E key \in StoreKeys, ok \in BOOLEAN :
         /\ key \notin store => ~ok
         /\ store' = IF ok THEN store \ {key} ELSE store
         /\ putSince' = putSince \ {key}
         /\ lastOp' = [NoOp EXCEPT !.op = "delete", !.key = key,
                                   !.ret = IF ok THEN "ok" ELSE "err"]
    /\ ListDropped
    /\ UNCHANGED <<pc, cfgVars, codecVars, progressVars, sizeCheck, ctxVars, retryVars, backups, idx, cleanupErr, deleteCalls,
                   outName, stages, handle, adapter, url, parts, cfg, session, smbStore,
                   closes>>

\* blobStore.Close, smbStore.Close: the bucket is closed, or the tree is
\* disconnected and the session closed; the release may fail.
StoreClose ==
    /\ pc = "store_ready"
    /\ closes < MaxCloses
    /\ \E release \in {"ok", "fail"} :
         lastOp' = [NoOp EXCEPT !.op = "close", !.release = release,
                                !.ret = CloseResult(adapter, release)]
    /\ closes' = closes + 1
    /\ handle' = "closed"
    /\ session' = IF adapter = "smb" THEN [session EXCEPT !.state = "closed"] ELSE session
    /\ ListDropped
    /\ UNCHANGED <<pc, cfgVars, codecVars, progressVars, sizeCheck, ctxVars, retryVars, backups, idx, cleanupErr, deleteCalls,
                   outName, stages, store, adapter, url, parts, cfg, smbStore, putSince>>

InitStore ==
    /\ Fresh
    /\ CodecIdle
    /\ ProgressIdle
    /\ pc = "store_open"
    /\ maxRetries = 0
    /\ keepLast = 0
    /\ store = {}
    /\ handle = "none"
    /\ adapter = "none"
    /\ parts \in StorageURLs
    /\ url = URLOf(parts)

NextStore ==
    \/ StorageOpen
    \/ SmbParse
    \/ SmbConnect
    \/ SmbAuthCheck
    \/ SmbTreeConnect
    \/ BlobPut
    \/ SmbPut
    \/ StoreList
    \/ StoreDelete
    \/ StoreClose

SpecStore == InitStore /\ [][NextStore]_vars

(***************************************************************************)
(* The codecs alone: GenerateBackupFilename and ParseBackupFilename on an   *)
(* arbitrary instant or name, parseSMBURL on an arbitrary URL.              *)
(***************************************************************************)
\* The instants given to GenerateBackupFilename: what time.Now().UTC() can
\* return in a year of four digits, at the ends and in the middle of each
\* field's range, the days checked against the month.
CodecInstants ==
    {t \in [year : {1970, 2024, 2025, 9999}, month : {1, 2, 12}, day : {1, 9, 28, 29, 31},
            hour : {0, 9, 10, 23}, min : {0, 59}, sec : {0, 59}, nsec : {0}] :
        t.day <= DaysIn(t.month, t.year)}

\* Names given to ParseBackupFilename: those of its test, the keys of the
\* model's store, and names one edit away from a well-formed one.
CodecNames ==
    KeyUniverse \cup
    {<<"u", "n", "i", "f", "i", "-", "b", "a", "c", "k", "u", "p", "-", "2", "0", "2", "4", "-", "0", "1", "-", "1", "5", "T", "1", "0", "-", "3", "0", "-", "0", "0", "Z", ".", "u", "n", "f">>,
     <<"u", "n", "i", "f", "i", "-", "b", "a", "c", "k", "u", "p", "-", "2", "0", "2", "5", "-", "1", "2", "-", "0", "5", "T", "0", "0", "-", "0", "0", "-", "0", "0", "Z", ".", "u", "n", "f">>,
     <<"b", "a", "c", "k", "u", "p", "-", "2", "0", "2", "4", "-", "0", "1", "-", "1", "5", "T", "1", "0", "-", "3", "0", "-", "0", "0", "Z", ".", "u", "n", "f">>,
     <<"u", "n", "i", "f", "i", "-", "b", "a", "c", "k", "u", "p", "-", "2", "0", "2", "4", "-", "0", "1", "-", "1", "5", "T", "1", "0", "-", "3", "0", "-", "0", "0", "Z", ".", "b", "a", "k">>,
     <<"u", "n", "i", "f", "i", "-", "b", "a", "c", "k", "u", "p", "-", "n", "o", "t", "-", "a", "-", "t", "i", "m", "e", "s", "t", "a", "m", "p", ".", "u", "n", "f">>,
     <<"2", "0", "2", "4", "-", "0", "1", "-", "1", "5", "T", "1", "0", "-", "3", "0", "-", "0", "0", "Z", ".", "u", "n", "f">>,
     <<>>,
     <<"u", "n", "i", "f", "i", "-", "b", "a", "c", "k", "u", "p", "-", ".", "u", "n", "f">>,
     <<"u", "n", "i", "f", "i", "-", "b", "a", "c", "k", "u", "p", "-", "2", "0", "2", "4", "-", "0", "1", "-", "1", "5", "T", "1", "0", "-", "3", "0", "-", "0", "0", "Z">>,
     <<"U", "n", "i", "f", "i", "-", "b", "a", "c", "k", "u", "p", "-", "2", "0", "2", "4", "-", "0", "1", "-", "1", "5", "T", "1", "0", "-", "3", "0", "-", "0", "0", "Z", ".", "u", "n", "f">>,
     <<"u", "n", "i", "f", "i", "-", "b", "a", "c", "k", "u", "p", "-", "2", "0", "2", "4", "-", "0", "1", "-", "1", "5", "T", "1", "0", "-", "3", "0", "-", "0", "0", "Z", ".", "U", "N", "F">>,
     <<"u", "n", "i", "f", "i", "-", "b", "a", "c", "k", "u", "p", "-", "2", "0", "2", "4", "-", "0", "1", "-", "1", "5", "T", "1", "0", "-", "3", "0", "-", "0", "0", ".", "5", "Z", ".", "u", "n", "f">>,
     <<"u", "n", "i", "f", "i", "-", "b", "a", "c", "k", "u", "p", "-", "2", "0", "2", "4", "-", "0", "1", "-", "1", "5", "T", "1", "0", "-", "3", "0", "-", "0", "0", ",", "2", "5", "Z", ".", "u", "n", "f">>,
     <<"u", "n", "i", "f", "i", "-", "b", "a", "c", "k", "u", "p", "-", "2", "0", "2", "4", "-", "0", "1", "-", "1", "5", "T", "7", "-", "3", "0", "-", "0", "0", "Z", ".", "u", "n", "f">>,
     <<"u", "n", "i", "f", "i", "-", "b", "a", "c", "k", "u", "p", "-", "2", "0", "2", "4", "-", "1", "-", "1", "5", "T", "1", "0", "-", "3", "0", "-", "0", "0", "Z", ".", "u", "n", "f">>,
     <<"u", "n", "i", "f", "i", "-", "b", "a", "c", "k", "u", "p", "-", "2", "0", "2", "4", "-", "0", "1", "-", "5", "T", "1", "0", "-", "3", "0", "-", "0", "0", "Z", ".", "u", "n", "f">>,
     <<"u", "n", "i", "f", "i", "-", "b", "a", "c", "k", "u", "p", "-", "2", "0", "2", "4", "-", "0", "1", "-", "1", "5", "T", "1", "0", "-", "3", "-", "0", "0", "Z", ".", "u", "n", "f">>,
     <<"u", "n", "i", "f", "i", "-", "b", "a", "c", "k", "u", "p", "-", "2", "0", "2", "4", "-", "0", "1", "-", "1", "5", "T", "1", "0", "-", "3", "0", "-", "0", "Z", ".", "u", "n", "f">>,
     <<"u", "n", "i", "f", "i", "-", "b", "a", "c", "k", "u", "p", "-", "2", "4", "-", "0", "1", "-", "1", "5", "T", "1", "0", "-", "3", "0", "-", "0", "0", "Z", ".", "u", "n", "f">>,
     <<"u", "n", "i", "f", "i", "-", "b", "a", "c", "k", "u", "p", "-", "2", "0", "2", "4", "-", "0", "1", "-", "1", "5", "T", "2", "4", "-", "3", "0", "-", "0", "0", "Z", ".", "u", "n", "f">>,
     <<"u", "n", "i", "f", "i", "-", "b", "a", "c", "k", "u", "p", "-", "2", "0", "2", "4", "-", "0", "1", "-", "1", "5", "T", "1", "0", "-", "6", "0", "-", "0", "0", "Z", ".", "u", "n", "f">>,
     <<"u", "n", "i", "f", "i", "-", "b", "a", "c", "k", "u", "p", "-", "2", "0", "2", "4", "-", "0", "1", "-", "1", "5", "T", "1", "0", "-", "3", "0", "-", "6", "0", "Z", ".", "u", "n", "f">>,
     <<"u", "n", "i", "f", "i", "-", "b", "a", "c", "k", "u", "p", "-", "2", "0", "2", "5", "-", "0", "2", "-", "2", "9", "T", "1", "0", "-", "3", "0", "-", "0", "0", "Z", ".", "u", "n", "f">>,
     <<"u", "n", "i", "f", "i", "-", "b", "a", "c", "k", "u", "p", "-", "2", "0", "2", "4", "-", "0", "2", "-", "2", "9", "T", "1", "0", "-", "3", "0", "-", "0", "0", "Z", ".", "u", "n", "f">>,
     <<"u", "n", "i", "f", "i", "-", "b", "a", "c", "k", "u", "p", "-", "2", "0", "2", "4", "-", "0", "0", "-", "1", "5", "T", "1", "0", "-", "3", "0", "-", "0", "0", "Z", ".", "u", "n", "f">>,
     <<"u", "n", "i", "f", "i", "-", "b", "a", "c", "k", "u", "p", "-", "2", "0", "2", "4", "-", "0", "1", "-", "0", "0", "T", "1", "0", "-", "3", "0", "-", "0", "0", "Z", ".", "u", "n", "f">>,
     <<"u", "n", "i", "f", "i", "-", "b", "a", "c", "k", "u", "p", "-", "2", "0", "2", "4", "-", "0", "1", "-", "1", "5", "T", "1", "0", ":", "3", "0", ":", "0", "0", "Z", ".", "u", "n", "f">>,
     <<"u", "n", "i", "f", "i", "-", "b", "a", "c", "k", "u", "p", "-", "2", "0", "2", "4", "-", "0", "1", "-", "1", "5", "T", "1", "0", "-", "3", "0", "-", "0", "0", ".", "u", "n", "f">>,
     <<"u", "n", "i", "f", "i", "-", "b", "a", "c", "k", "u", "p", "-", "2", "0", "2", "4", "-", "0", "1", "-", "1", "5", "T", "1", "0", "-", "3", "0", "-", "0", "0", "Z", "Z", ".", "u", "n", "f">>,
     <<"u", "n", "i", "f", "i", "-", "b", "a", "c", "k", "u", "p", "-", "2", "0", "2", "4", "-", "0", "1", "-", "1", "5", "t", "1", "0", "-", "3", "0", "-", "0", "0", "Z", ".", "u", "n", "f">>,
     <<"u", "n", "i", "f", "i", "-", "b", "a", "c", "k", "u", "p", "-", "2", "0", "2", "4", "-", "0", "1", "-", "1", "5", "T", "1", "0", "-", "3", "0", "-", "0", "0", "z", ".", "u", "n", "f">>,
     <<"u", "n", "i", "f", "i", "-", "b", "a", "c", "k", "u", "p", "-", " ", "2", "0", "2", "4", "-", "0", "1", "-", "1", "5", "T", "1", "0", "-", "3", "0", "-", "0", "0", "Z", ".", "u", "n", "f">>,
     <<"u", "n", "i", "f", "i", "-", "b", "a", "c", "k", "u", "p", "-", "2", "0", "2", "4", "-", "0", "1", "-", "1", "5", "T", "1", "0", "-", "3", "0", "-", "0", "0", ".", "Z", ".", "u", "n", "f">>,
     <<"u", "n", "i", "f", "i", "-", "b", "a", "c", "k", "u", "p", "-", "+", "2", "0", "2", "4", "-", "0", "1", "-", "1", "5", "T", "1", "0", "-", "3", "0", "-", "0", "0", "Z", ".", "u", "n", "f">>}

\* URLs whose scheme is not smb: another scheme, an empty one, none.
ForeignSchemeURLs ==
    {<<"h", "t", "t", "p", ":", "/", "/", "s", "e", "r", "v", "e", "r", "/", "s", "h", "a", "r", "e">>,
     <<"f", "t", "p", ":", "/", "/", "s", "e", "r", "v", "e", "r", "/", "s", "h", "a", "r", "e">>,
     <<"f", "i", "l", "e", ":", "/", "/", "s", "e", "r", "v", "e", "r", "/", "s", "h", "a", "r", "e">>,
     <<"s", "m", "b", "s", ":", "/", "/", "s", "e", "r", "v", "e", "r", "/", "s", "h", "a", "r", "e">>,
     <<":", "/", "/", "s", "e", "r", "v", "e", "r", "/", "s", "h", "a", "r", "e">>,
     <<"/", "/", "s", "e", "r", "v", "e", "r", "/", "s", "h", "a", "r", "e">>,
     <<"s", "e", "r", "v", "e", "r", "/", "s", "h", "a", "r", "e">>,
     <<"/", "s", "e", "r", "v", "e", "r", "/", "s", "h", "a", "r", "e">>,
     <<"n", "o", "t", " ", "a", " ", "u", "r", "l", " ", "a", "t", " ", "a", "l", "l">>,
     <<>>,
     <<"s", "m", "b">>,
     <<"h", "t", "t", "p", "s", ":", "/", "/", "u", "s", "e", "r", ":", "p", "a", "s", "s", "@", "s", "e", "r", "v", "e", "r", "/", "s", "h", "a", "r", "e", "/", "d">>,
     <<"s", "m", "b", "/", "/", "s", "e", "r", "v", "e", "r", "/", "s", "h", "a", "r", "e">>}

SmbAuthorities ==
    {<<"s", "e", "r", "v", "e", "r">>,
     <<"s", "e", "r", "v", "e", "r", ":", "1", "3", "9">>,
     <<"u", "s", "e", "r", ":", "p", "a", "s", "s", "@", "s", "e", "r", "v", "e", "r">>,
     <<"u", "s", "e", "r", "@", "s", "e", "r", "v", "e", "r">>,
     <<"D", "O", "M", "A", "I", "N", ";", "u", "s", "e", "r", ":", "p", "a", "s", "s", "@", "s", "e", "r", "v", "e", "r", ":", "1", "3", "9">>,
     <<"1", "0", ".", "0", ".", "0", ".", "5", "0">>}

\* smb URLs without a share: no path, or the path "/".
NoShareURLs == {SmbPrefix \o a \o t : a \in SmbAuthorities, t \in {<<>>, <<"/">>}}

\* smb://user@corp.example/share
UserAtHostURL == <<"s", "m", "b", ":", "/", "/", "u", "s", "e", "r", "@", "c", "o", "r", "p", ".", "e", "x", "a", "m", "p", "l", "e", "/", "s", "h", "a", "r", "e">>

\* The URLs of the test of parseSMBURL that it accepts.
TestURLs ==
    {<<"s", "m", "b", ":", "/", "/", "s", "e", "r", "v", "e", "r", "/", "s", "h", "a", "r", "e">>,
     <<"s", "m", "b", ":", "/", "/", "s", "e", "r", "v", "e", "r", ":", "1", "3", "9", "/", "s", "h", "a", "r", "e">>,
     <<"s", "m", "b", ":", "/", "/", "u", "s", "e", "r", ":", "p", "a", "s", "s", "@", "s", "e", "r", "v", "e", "r", "/", "s", "h", "a", "r", "e">>,
     <<"s", "m", "b", ":", "/", "/", "D", "O", "M", "A", "I", "N", ";", "u", "s", "e", "r", ":", "p", "a", "s", "s", "@", "s", "e", "r", "v", "e", "r", "/", "s", "h", "a", "r", "e">>,
     <<"s", "m", "b", ":", "/", "/", "D", "O", "M", "A", "I", "N", "%", "5", "C", "u", "s", "e", "r", ":", "p", "a", "s", "s", "@", "s", "e", "r", "v", "e", "r", "/", "s", "h", "a", "r", "e">>,
     <<"s", "m", "b", ":", "/", "/", "u", "s", "e", "r", "@", "c", "o", "m", "p", "a", "n", "y", ".", "c", "o", "m", ":", "p", "a", "s", "s", "@", "s", "e", "r", "v", "e", "r", "/", "s", "h", "a", "r", "e">>,
     <<"s", "m", "b", ":", "/", "/", "s", "e", "r", "v", "e", "r", "/", "s", "h", "a", "r", "e", "/", "p", "a", "t", "h", "/", "t", "o", "/", "b", "a", "c", "k", "u", "p", "s">>,
     <<"s", "m", "b", ":", "/", "/", "u", "s", "e", "r", ":", "p", "a", "s", "s", "@", "s", "e", "r", "v", "e", "r", "/", "s", "h", "a", "r", "e", "/", "b", "a", "c", "k", "u", "p", "s">>,
     <<"s", "m", "b", ":", "/", "/", "D", "O", "M", "A", "I", "N", ";", "a", "d", "m", "i", "n", ":", "s", "e", "c", "r", "e", "t", "@", "1", "9", "2", ".", "1", "6", "8", ".", "1", ".", "1", "0", "0", ":", "1", "3", "9", "/", "b", "a", "c", "k", "u", "p", "/", "u", "n", "i", "f", "i", "/", "d", "a", "i", "l", "y">>,
     <<"s", "m", "b", ":", "/", "/", "1", "0", ".", "0", ".", "0", ".", "5", "0", "/", "s", "h", "a", "r", "e">>,
     <<"s", "m", "b", ":", "/", "/", "u", "s", "e", "r", "@", "s", "e", "r", "v", "e", "r", "/", "s", "h", "a", "r", "e">>,
     <<"s", "m", "b", ":", "/", "/", "u", "s", "e", "r", ":", "p", "@", "s", "s", "%", "2", "1", "w", "o", "r", "d", "@", "s", "e", "r", "v", "e", "r", "/", "s", "h", "a", "r", "e">>,
     <<"s", "m", "b", ":", "/", "/", "s", "e", "r", "v", "e", "r", "/", "s", "h", "a", "r", "e", "/", "m", "y", "%", "2", "0", "b", "a", "c", "k", "u", "p", "s">>,
     <<"S", "M", "B", ":", "/", "/", "s", "e", "r", "v", "e", "r", "/", "s", "h", "a", "r", "e">>}

\* The URLs given to parseSMBURL.
CodecURLs ==
    {URLOf(p) : p \in StorageURLs} \cup ForeignSchemeURLs \cup NoShareURLs
        \cup TestURLs \cup {UserAtHostURL}

\* GenerateBackupFilename() at the instant time.Now().UTC() returns.
Generate ==
    /\ pc = "generate"
    /\ backupName' = GenerateBackupFilename(instant)
    /\ pc' = "round_trip"
    /\ UNCHANGED <<cfgVars, ctxVars, retryVars, cleanupVars, storeVars, progressVars, sizeCheck,
                   store, handle, adapter, outName, stages, instant, parsed, urlErr>>

\* ParseBackupFilename(backupName), of a name just generated or of a given one.
ParseName ==
    /\ pc \in {"round_trip", "parse_name"}
    /\ parsed' = ParseBackupFilename(backupName)
    /\ pc' = IF pc = "round_trip" THEN "round_done" ELSE "name_parsed"
    /\ UNCHANGED <<cfgVars, ctxVars, retryVars, cleanupVars, storeVars, progressVars, sizeCheck,
                   store, handle, adapter, outName, stages, instant, backupName, urlErr>>

\* parseSMBURL(url)
ParseURL ==
    /\ pc = "parse_url"
    /\ LET r == parseSMBURL(url)
       IN  /\ urlErr' = r.err
           /\ cfg' = r.cfg
    /\ pc' = "url_parsed"
    /\ UNCHANGED <<cfgVars, ctxVars, retryVars, cleanupVars, progressVars, sizeCheck, store, handle,
                   adapter, outName, stages, instant, backupName, parsed, url, parts, session,
                   smbStore, lastOp, putSince, closes>>

InitCodec ==
    /\ Fresh
    /\ ProgressIdle
    /\ maxRetries = 0
    /\ keepLast = 0
    /\ store = {}
    /\ handle = "none"
    /\ adapter = "none"
    /\ parts = NoParts
    /\ parsed = NotParsed
    /\ urlErr = FALSE
    /\ \/ /\ pc = "generate"
          /\ instant \in CodecInstants
          /\ backupName = NoName
          /\ url = <<>>
       \/ /\ pc = "parse_name"
          /\ instant = ZeroTime
          /\ backupName \in CodecNames
          /\ url = <<>>
       \/ /\ pc = "parse_url"
          /\ instant = ZeroTime
          /\ backupName = NoName
          /\ url \in CodecURLs

NextCodec ==
    \/ Generate
    \/ ParseName
    \/ ParseURL

SpecCodec == InitCodec /\ [][NextCodec]_vars

(***************************************************************************)
(* The progress reader: pkg/storage, progress.go, read to its end by a      *)
(* consumer such as io.Copy or io.ReadAll.                                  *)
(***************************************************************************)
Bytes == {"a", "b"}

\* The streams the wrapped reader gives.
Streams == UNION {[1..n -> Bytes] : n \in 0..MaxStream}

\* newProgressReader(r, totalSize, logIntervalMB)
newProgressReader(totalSize, logIntervalMB) ==
    [total |-> totalSize, read |-> 0, lastLogged |-> 0, logInterval |-> logIntervalMB * MiB]

\* A variant that logs at the threshold only.
ShouldLogAtThreshold(p, eof) == p.read - p.lastLogged >= p.logInterval

\* Read: the condition under which it logs.
ShouldLog(p, eof) == p.read - p.lastLogged >= p.logInterval \/ eof

\* A variant that takes a total of zero for a known one.
KnownTotalOrZero(total) == total >= 0

\* logProgress: the total is known.
KnownTotal(total) == total > 0

\* logProgress: the record logged, as the bytes downloaded and the keys of
\* its attributes.  The speed is positive once time has passed and bytes
\* have been read.
logProgress(p, timePassed) ==
    LET speedPositive == timePassed /\ p.read > 0
    IN  [downloaded |-> p.read,
         attrs |-> {"downloaded", "elapsed", "speed"} \cup
                   (IF KnownTotal(p.total) /\ speedPositive
                    THEN {"total", "percentage", "estimated_remaining"}
                    ELSE IF KnownTotal(p.total) THEN {"total", "percentage"} ELSE {})]

\* pr.Read(p): the wrapped reader gives n bytes, with nil, with io.EOF or
\* with another error once it has given its last byte; the consumer stops at
\* the first error.
ProgressRead ==
    /\ pc = "reading"
    /\ \E n \in 0..(Len(source.data) - source.pos), err \in {"nil", srcErr} :
         /\ err # "nil" => n = Len(source.data) - source.pos
         /\ LET p == [pr EXCEPT !.read = @ + n]
                eof == err = "eof"
            IN  /\ pr' = IF ShouldLog(p, eof) THEN [p EXCEPT !.lastLogged = p.read] ELSE p
                /\ observations' = IF ShouldLog(p, eof)
                                   THEN Append(observations,
                                               [log |-> logProgress(p, elapsed), eof |-> eof])
                                   ELSE observations
         /\ delivered' = delivered \o SubSeq(source.data, source.pos + 1, source.pos + n)
         /\ source' = [source EXCEPT !.pos = @ + n]
         /\ pc' = CASE err = "nil" -> "reading"
                    [] err = "eof" -> "read_eof"
                    [] OTHER -> "read_failed"
    /\ UNCHANGED <<cfgVars, codecVars, ctxVars, retryVars, cleanupVars, storeVars, sizeCheck, store,
                   handle, adapter, outName, stages, srcErr, elapsed>>

\* Time passes: time.Since(pr.startTime) becomes positive.
ClockTick ==
    /\ pc = "reading"
    /\ ~elapsed
    /\ elapsed' = TRUE
    /\ UNCHANGED <<pc, cfgVars, codecVars, ctxVars, retryVars, cleanupVars, storeVars, sizeCheck,
                   store, handle, adapter, outName, stages, pr, source, srcErr, delivered,
                   observations>>

\* A reader just made around a stream: its total is unknown (-1 or 0), the
\* length of the stream, or one more than it.
InitProgress ==
    /\ Fresh
    /\ CodecIdle
    /\ pc = "reading"
    /\ maxRetries = 0
    /\ keepLast = 0
    /\ store = {}
    /\ handle = "none"
    /\ adapter = "none"
    /\ parts = NoParts
    /\ url = <<>>
    /\ \E data \in Streams :
         /\ source = [data |-> data, pos |-> 0]
         /\ \E total \in {-1, 0, Len(data), Len(data) + 1}, mb \in 1..MaxIntervalMB :
              pr = newProgressReader(total, mb)
    /\ srcErr \in {"eof", "fail"}
    /\ delivered = <<>>
    /\ observations = <<>>
    /\ elapsed = FALSE

NextProgress ==
    \/ ProgressRead
    \/ ClockTick

SpecProgress == InitProgress /\ [][NextProgress]_vars

(***************************************************************************)
(* Properties of cleanupOldBackups (SpecCleanup).                           *)
(***************************************************************************)
Parses(k) == ParseBackupFilename(k).ok

TimeOf(k) == ParseBackupFilename(k).t

\* M: the objects of the store at List time whose names parse.
Parseable == {k \in listed : Parses(k)}

Max0(n) == IF n > 0 THEN n ELSE 0

CalledKeys == [i \in 1..Len(deleteCalls) |-> deleteCalls[i][1]]

AllDeletesOk == \A i \in 1..Len(deleteCalls) : deleteCalls[i][2]

\* cleanupOldBackups has returned after a List that succeeded.
CleanedUp == pc = "cleanup_done" /\ listRet = "ok"

\* C1.  Retention count and choice: with M objects whose names parse and K
\* whose names do not, keepLast = N >= 1 and every Delete succeeding, cleanup
\* deletes exactly max(M - N, 0) objects, all of them among the M, none of them
\* newer than a parseable object it keeps, and none of the K.
C1_RetentionCount ==
    (CleanedUp /\ keepLast >= 1 /\ AllDeletesOk) =>
        LET deleted == listed \ store
        IN  /\ Cardinality(deleted) = Max0(Cardinality(Parseable) - keepLast)
            /\ Len(deleteCalls) = Cardinality(deleted)
            /\ deleted \subseteq Parseable
            /\ store \subseteq listed
            /\ \A d \in deleted : \A k \in Parseable \ deleted : ~After(TimeOf(d), TimeOf(k))
            /\ \A k \in listed \ Parseable : k \in store

\* A cleanup that deleted two of three backups beside a foreign .unf object.
C1_Witness ==
    /\ CleanedUp
    /\ AllDeletesOk
    /\ Len(deleteCalls) = 2
    /\ Cardinality(Parseable) = keepLast + 2
    /\ ForeignKey \in store

\* The deletion candidates: backups[keepLast:], by name.
Candidates == [i \in 1..Max0(Len(backups) - keepLast) |-> backups[keepLast + i].filename]

\* C2.  Best-effort bulk deletion: whichever Deletes fail, Delete is invoked
\* exactly once on every candidate, that is on max(M - N, 0) distinct names
\* that parse, and the call returns no error.
C2_BestEffortDeletion ==
    CleanedUp =>
        /\ cleanupErr = Nil
        /\ CalledKeys = Candidates
        /\ Len(deleteCalls) = Max0(Cardinality(Parseable) - keepLast)
        /\ \A i, j \in 1..Len(deleteCalls) : i # j => CalledKeys[i] # CalledKeys[j]
        /\ Range(CalledKeys) \subseteq Parseable

\* A cleanup whose first Delete failed and whose second was still made.
C2_Witness ==
    /\ CleanedUp
    /\ Len(deleteCalls) >= 2
    /\ ~deleteCalls[1][2]
    /\ deleteCalls[2][2]

\* C3.  cleanupOldBackups returns an error exactly when store.List returned
\* one; then no Delete is invoked and the store is as it was.
C3_ErrorIffListFails ==
    pc = "cleanup_done" =>
        /\ (cleanupErr # Nil) <=> (listRet = "err")
        /\ listRet = "err" => (deleteCalls = <<>> /\ store = listed)

\* A List that failed on a store with more backups than keepLast.
C3_Witness ==
    /\ pc = "cleanup_done"
    /\ listRet = "err"
    /\ cleanupErr # Nil
    /\ Cardinality(Parseable) > keepLast

(***************************************************************************)
(* Properties of the run of main (Spec).                                    *)
(***************************************************************************)
\* C4.  With keepLast <= 0 a run never issues a Delete, and never lists.
C4_NoCleanupWhenUnlimited ==
    keepLast <= 0 => (deleteCalls = <<>> /\ listRet = "none" /\ pc \notin {"cleanup_list", "cleanup_delete", "cleanup_done"})

\* A run with keepLast = 0 that ended well on a store of two backups.
C4_Witness ==
    /\ keepLast = 0
    /\ pc = "exit0"
    /\ Cardinality({k \in store : Parses(k)}) >= 2

\* C5.  Store handle release: when storage.Open succeeded, store.Close has
\* run by the time the process ends, on every exit path.
C5_CloseOnEveryExit ==
    (pc \in {"exit0", "exit1"} /\ handle # "none") => handle = "closed"

(***************************************************************************)
(* Properties of retryWithBackoff (SpecRetry).                              *)
(***************************************************************************)
IsOpError(e) == e[1] = "err"

\* C6.  Retry outcome and attempt count: operation is invoked at most
\* maxRetries + 1 times; a return of nil comes right after the first
\* invocation that succeeded, at attempt index k, after k + 1 invocations and
\* k waits; a return of an error of the operation comes after maxRetries + 1
\* invocations that all failed and is the error of the last one; and without a
\* cancellation the harness returns one or the other.
C6_RetryOutcome ==
    /\ invocations <= maxRetries + 1
    /\ pc = "retry_done" =>
         /\ retryErr = Nil =>
              /\ lastErr = Nil
              /\ attempt <= maxRetries
              /\ invocations = attempt + 1
              /\ waits = attempt
         /\ IsOpError(retryErr) =>
              /\ invocations = maxRetries + 1
              /\ waits = maxRetries
              /\ retryErr = <<"err", maxRetries + 1>>
         /\ dlErr = "none" => (retryErr = Nil \/ IsOpError(retryErr))

\* The operation failed twice and succeeded at the third attempt.
C6_Witness ==
    /\ pc = "retry_done"
    /\ retryErr = Nil
    /\ attempt = 2
    /\ invocations = 3
    /\ waits = 2

\* C7.  Interruptible backoff: once the context got done during the wait
\* before attempt k, the harness is in that wait or has returned the
\* context's error, and operation has been invoked for the attempts before k
\* only.
C7_InterruptibleBackoff ==
    firedAt.pc = "retry_wait" =>
        /\ pc \in {"retry_wait", "retry_done"}
        /\ invocations = firedAt.attempt
        /\ pc = "retry_done" => retryErr = CtxErr(dlErr)

\* min(2^e, 30)
CappedPow2(e) == IF e >= 5 THEN 30 ELSE Pow2(e)

\* C8.  Backoff delay: attempt 0 runs with no wait, and the wait before
\* attempt k >= 1 is min(2^(k-1), 30) seconds, whatever maxRetries is.
C8_BackoffDelay ==
    /\ (pc = "retry_op" /\ attempt = 0) => waits = 0
    /\ pc = "retry_wait" => delay = Mul64(Int64(CappedPow2(attempt - 1)), Second)

\* C9.  No retry after cancellation: no attempt with an index above 0 is
\* started once the context of the harness is done.
C9_NoAttemptAfterCancel ==
    ~(pc = "retry_op" /\ opDoomed /\ attempt > 0)

(***************************************************************************)
(* The order of the stages of a run (Spec).                                 *)
(***************************************************************************)
StageOrder == <<"login", "create", "download", "open", "put", "cleanup">>

\* C10.  Pipeline stage order: the stages started are a prefix of login,
\* create-backup, download, open, Put, cleanup; each was started after all the
\* earlier ones succeeded; and after a failure of one of the first five the
\* run has ended in failure with no later stage started.
C10_StageOrder ==
    /\ Len(stages) <= Len(StageOrder)
    /\ \A i \in 1..Len(stages) :
         /\ stages[i].stage = StageOrder[i]
         /\ i < Len(stages) => stages[i].result = "ok"
         /\ (stages[i].result = "fail" /\ stages[i].stage # "cleanup") => pc = "exit1"
    /\ pc = "exit1" => (stages # <<>> /\ stages[Len(stages)].result = "fail")

\* A run that went through the six stages and ended well.
C10_Witness ==
    /\ pc = "exit0"
    /\ Len(stages) = 6
    /\ \A i \in 1..6 : stages[i].result = "ok"

(***************************************************************************)
(* Properties of the pipeline, continued (Spec).                            *)
(***************************************************************************)
Calls(stage) == Cardinality({i \in 1..Len(stages) : stages[i].stage = stage})

\* C11.  Only the download step is retried: in one run login, createBackup
\* and store.Put are each called at most once, and DownloadBackup is called
\* at most maxRetries + 1 times.
C11_OnlyDownloadRetried ==
    /\ Calls("login") <= 1
    /\ Calls("create") <= 1
    /\ Calls("put") <= 1
    /\ invocations <= maxRetries + 1

\* A run that downloaded maxRetries + 1 = 2 times and then saved the backup.
C11_Witness ==
    /\ pc = "exit0"
    /\ maxRetries = 1
    /\ invocations = 2
    /\ Calls("put") = 1

PutSucceeded == \E i \in 1..Len(stages) : stages[i].stage = "put" /\ stages[i].result = "ok"

\* C12.  A cleanup failure does not fail the run: once Put has succeeded the
\* run never takes the failure exit, whether cleanupOldBackups returns an
\* error, some Delete fails, or the cleanup is skipped.
C12_CleanupFailureNotFatal == PutSucceeded => pc # "exit1"

\* A run that ended successfully although store.List failed in the cleanup.
C12_Witness ==
    /\ pc = "exit0"
    /\ PutSucceeded
    /\ cleanupErr = ListError

ExternalOperations == {"login", "create", "download", "put"}

\* C13.  Per-operation deadlines: each of login, create-backup, download and
\* store.Put runs under a context of its own that carries a deadline.
C13_PerOperationDeadline ==
    \A i \in 1..Len(stages) :
        stages[i].stage \in ExternalOperations => stages[i].ctx \in WithTimeout

\* C14.  Cancellation is observed by every blocking call: a step taken after
\* the signal has fired (login, create-backup, a download attempt, the
\* backoff wait, Put, List and each Delete) fails instead of doing its work.
C14_CancellationObserved ==
    [][sigDone =>
          /\ (Len(stages') > Len(stages) /\ stages'[Len(stages')].stage \in {"login", "create", "put"})
                 => stages'[Len(stages')].result = "fail"
          /\ (pc = "retry_op" /\ opDoomed /\ pc' # "retry_op") => lastErr' # Nil
          /\ pc = "retry_wait" => pc' # "retry_op"
          /\ (listRet = "none" /\ listRet' # "none") => listRet' = "err"
          /\ Len(deleteCalls') > Len(deleteCalls) => ~deleteCalls'[Len(deleteCalls')][2]
      ]_vars

(***************************************************************************)
(* Properties of the object store (SpecStore).                              *)
(***************************************************************************)
ListSucceeded == lastOp.op = "list" /\ lastOp.ret = "ok"

\* C15.  Put then List: on both adapters and for every key, a key Put with
\* success and not deleted since is in the result of the next successful List.
C15_PutThenList == ListSucceeded => putSince \subseteq Range(files)

\* C16.  List filter: on both adapters a successful List returns every object
\* of the store whose key ends with .unf and no other, and leaves the store
\* as it was.
C16_ListFilter ==
    ListSucceeded =>
        /\ Range(files) = {k \in store : HasSuffix(k, BackupSuffix)}
        /\ store = listed

\* C17.  Close swallows errors: on both adapters every call of Close, the
\* first or a later one, returns no error, also when the release failed.
C17_CloseReturnsNoError == lastOp.op = "close" => lastOp.ret = "ok"

\* The target of the Put has a directory above it: its path in the share
\* has a slash after its first character.
HasParent(basePath, key) ==
    LET target == PathJoin(basePath, key)
    IN  \E i \in 2..Len(target) : target[i] = "/"

SmbPutDone == adapter = "smb" /\ lastOp.op = "put"

\* C18.  SMB Put directory handling: smbStore.Put calls MkdirAll exactly when
\* the target has a parent directory, goes on to the file write whatever
\* MkdirAll returned, and returns an error exactly when the file write failed.
C18_SmbPutDirectories ==
    SmbPutDone =>
        /\ HasParent(smbStore.basePath, lastOp.key) <=> lastOp.mkdir # "skipped"
        /\ lastOp.write # "none"
        /\ lastOp.ret = "err" <=> lastOp.write = "fail"

\* A Put below a base path whose directory was there already, and one whose
\* directory could not be made: both succeed as the write did.
C18_Witness ==
    /\ SmbPutDone
    /\ smbStore.basePath = <<"u", "d">>
    /\ lastOp.mkdir \in {"collision", "denied"}
    /\ lastOp.ret = "ok"

\* C19.  SMB session open: an OpenSMBStore that fails leaves no session open,
\* and the store it returns has a session that is open, authenticated and
\* tree-connected.
C19_NoSessionLeftOpen ==
    /\ pc = "open_failed" => session.state # "open"
    /\ (adapter = "smb" /\ handle = "open") =>
          (session.state = "open" /\ session.authenticated /\ session.tree)

\* The share could not be connected: the authenticated session is closed.
C19_Witness ==
    /\ pc = "open_failed"
    /\ session.authenticated
    /\ session.state = "closed"

\* The configuration the parts of an SMB URL stand for.
Expected(p) ==
    [Host |-> p.host, Port |-> IF p.port = 0 THEN DefaultPort ELSE p.port,
     Username |-> p.user, Password |-> p.pass, Domain |-> p.domain,
     Share |-> p.share, BasePath |-> p.base]

CorpConfig ==
    [Host |-> <<"c", "o", "r", "p", ".", "e", "x", "a", "m", "p", "l", "e">>,
     Port |-> DefaultPort, Username |-> <<"u", "s", "e", "r">>, Password |-> <<>>,
     Domain |-> <<>>, Share |-> <<"s", "h", "a", "r", "e">>, BasePath |-> <<>>]

UserAtHostParsed == pc = "url_parsed" /\ url = UserAtHostURL

\* C21, as amended.  For smb://user@corp.example/share parseSMBURL returns
\* no error and the user name "user", the host "corp.example", the default
\* port, the share "share", an empty password, no domain and no base path:
\* the only "@" of the URL ends the user information.
C21_UserAtHost == UserAtHostParsed => ~urlErr /\ cfg = CorpConfig

C21_Witness == UserAtHostParsed /\ cfg.Username = <<"u", "s", "e", "r">> /\ cfg.Host = <<"c", "o", "r", "p", ".", "e", "x", "a", "m", "p", "l", "e">>

\* C21, as stated.  For smb://user@corp.example/share parseSMBURL keeps
\* user@corp.example as the user name and extracts no domain.
C21_LiteralUserName ==
    UserAtHostParsed =>
        /\ ~urlErr
        /\ cfg.Username = <<"u", "s", "e", "r", "@", "c", "o", "r", "p", ".", "e", "x", "a", "m", "p", "l", "e">>
        /\ cfg.Domain = <<>>

\* C22.  parseSMBURL returns an error and no configuration for every URL
\* whose scheme is not smb (another scheme, an empty one, none) and for every
\* smb URL without a share (no path, or the path "/"); every configuration it
\* returns has a share that is not empty.
C22_Rejection ==
    pc = "url_parsed" =>
        /\ (url \in ForeignSchemeURLs \cup NoShareURLs => urlErr /\ cfg = NoConfig)
        /\ (~urlErr => cfg.Share # <<>>)

C22_Witness ==
    /\ pc = "url_parsed"
    /\ url = SmbPrefix \o <<"s", "e", "r", "v", "e", "r">> \o <<"/">>
    /\ urlErr
    /\ cfg = NoConfig

\* C23.  The name generated for an instant t of whole seconds parses back to
\* exactly t, and no other instant of whole seconds gives the same name.
C23_RoundTrip ==
    pc = "round_done" =>
        /\ parsed.ok
        /\ parsed.t = instant
        /\ \A u \in CodecInstants : u # instant => GenerateBackupFilename(u) # backupName

C23_Witness ==
    /\ pc = "round_done"
    /\ instant = [year |-> 2024, month |-> 2, day |-> 29, hour |-> 23, min |-> 59, sec |-> 59,
                  nsec |-> 0]
    /\ parsed = [ok |-> TRUE, t |-> instant]

\* YYYY-MM-DDTHH-MM-SSZ, "d" standing for a digit.
ExactShape ==
    <<"d", "d", "d", "d", "-", "d", "d", "-", "d", "d", "T", "d", "d", "-", "d", "d",
      "-", "d", "d", "Z">>

\* text is a timestamp in the exact format YYYY-MM-DDTHH-MM-SSZ: the shape,
\* and an instant that exists.
IsExactTimestamp(text) ==
    /\ Len(text) = Len(ExactShape)
    /\ \A i \in 1..Len(ExactShape) :
         IF ExactShape[i] = "d" THEN IsDigit(text, i) ELSE text[i] = ExactShape[i]
    /\ LET month == DigitsVal(text, 6, 2)
           day == DigitsVal(text, 9, 2)
       IN  /\ month \in 1..12
           /\ day \in 1..DaysIn(month, DigitsVal(text, 1, 4))
           /\ DigitsVal(text, 12, 2) < 24
           /\ DigitsVal(text, 15, 2) < 60
           /\ DigitsVal(text, 18, 2) < 60

\* The text of a name between the prefix and the suffix.
Between(k) == TrimSuffix(TrimPrefix(k, BackupPrefix), BackupSuffix)

\* C24.  ParseBackupFilename returns an error for the empty name, for every
\* name without the prefix unifi-backup-, for every name without the suffix
\* .unf, and for every name whose text between the two is not a timestamp in
\* the exact format YYYY-MM-DDTHH-MM-SSZ.
C24_MalformedRejected ==
    (/\ pc = "name_parsed"
     /\ \/ backupName = <<>>
        \/ ~HasPrefix(backupName, BackupPrefix)
        \/ ~HasSuffix(backupName, BackupSuffix)
        \/ ~IsExactTimestamp(Between(backupName))) => ~parsed.ok

(***************************************************************************)
(* Properties of the progress reader (SpecProgress).                        *)
(***************************************************************************)
\* C25.  A stream shorter than the threshold, read through the progress
\* reader to its end by reads of any sizes: nothing is logged before the end
\* of the stream, exactly one record is logged in all, by the read that meets
\* the end, and then the counter of the reader is the length of the stream
\* and the bytes returned are those of the stream.
C25_FinalObservation ==
    Len(source.data) < pr.logInterval =>
        /\ pc = "reading" => observations = <<>>
        /\ pc = "read_eof" =>
             /\ Len(observations) = 1
             /\ observations[1].eof
             /\ observations[1].log.downloaded = Len(source.data)
             /\ pr.read = Len(source.data)
             /\ delivered = source.data

C25_Witness ==
    /\ pc = "read_eof"
    /\ Len(source.data) = MaxStream
    /\ Len(source.data) < pr.logInterval
    /\ Len(observations) = 1
    /\ delivered = source.data

\* C26.  A reader given a total that is not positive logs no record, at any
\* point of the transfer, with a percentage or an estimated remaining time.
C26_UnknownSize ==
    pr.total <= 0 =>
        \A i \in 1..Len(observations) :
            observations[i].log.attrs \cap {"percentage", "estimated_remaining"} = {}

C26_Witness ==
    /\ pr.total <= 0
    /\ pc = "read_eof"
    /\ elapsed
    /\ Len(observations) >= 2
    /\ observations[1].log.downloaded > 0

(***************************************************************************)
(* Properties of the cleanup and of the harness, continued.                 *)
(***************************************************************************)
\* The names listed that parse, each with its timestamp.
Stamped == {q \in {<<k, ParseBackupFilename(k)>> : k \in listed} : q[2].ok}

\* The names of ps carry pairwise distinct timestamps.
DistinctTimestamps(ps) == \A p, q \in ps : p # q => p[2].t # q[2].t

\* What the content of the store and keepLast alone determine: nothing when
\* List returns at most keepLast names, else the names that parse and have
\* at least keepLast names with a later timestamp.
DeletesByContent(ps) ==
    IF Cardinality(ListOf(adapter, listed)) <= keepLast THEN {}
    ELSE {p[1] : p \in {p \in ps : Cardinality({q \in ps : After(q[2].t, p[2].t)}) >= keepLast}}

\* C27 (SpecCleanup).  The result of the cleanup does not depend on the
\* order of the listing: when the timestamps in the store are pairwise
\* distinct, the set of keys Delete is called on is the one the content of
\* the store and keepLast determine, in whichever order List returned the
\* keys.
C27_OrderIndependent ==
    CleanedUp =>
        LET ps == Stamped
        IN  DistinctTimestamps(ps) => Range(CalledKeys) = DeletesByContent(ps)

\* A listing that began with an older backup before a newer one, beside a
\* name that does not parse, and a cleanup that deleted.
C27_Witness ==
    /\ CleanedUp
    /\ DistinctTimestamps(Stamped)
    /\ Len(files) >= 4
    /\ Parses(files[1])
    /\ Parses(files[2])
    /\ After(TimeOf(files[2]), TimeOf(files[1]))
    /\ \E i \in 1..Len(files) : ~Parses(files[i])
    /\ Len(deleteCalls) >= 1

\* C28 (Spec).  The backup just written survives its own cleanup: with
\* keepLast >= 1 and a Put that succeeded, when no object listed carries a
\* timestamp later than that of the new backup, the cleanup never calls
\* Delete on the key the run wrote.
C28_NewBackupSurvives ==
    (/\ keepLast >= 1
     /\ PutSucceeded
     /\ listRet = "ok"
     /\ \A k \in Parseable : ~After(TimeOf(k), TimeOf(outName)))
        => \A i \in 1..Len(deleteCalls) : CalledKeys[i] # outName

C30_MismatchOnlyWarns ==
    [][(pc = "saved" /\ pc' # "saved") =>
          /\ pc' = IF keepLast > 0 THEN "cleanup_list" ELSE "exit0"
          /\ sizeCheck'.saved
          /\ sizeCheck'.warned =
               (sizeCheck'.expected > 0 /\ sizeCheck'.written # sizeCheck'.expected)]_vars

\* A run that wrote less than the download announced, warned, and made its
\* cleanup.
C30_Witness ==
    /\ pc = "cleanup_done"
    /\ listRet = "ok"
    /\ sizeCheck.saved
    /\ sizeCheck.warned
    /\ sizeCheck.written < sizeCheck.expected

====
